---- MODULE Spec2Model ----
(***************************************************************************)
(* Content synchronisation pipeline and chat session handling of the       *)
(* nupo-chatbot application, as state machines over the Prisma tables      *)
(* scraping_jobs, shop_content, chat_sessions and chat_messages.           *)
(*                                                                         *)
(* A request (or the background task it leaves behind) is a process with a *)
(* program counter; every `await` of the JavaScript source is a point      *)
(* where another request may run, so every awaited call is one action.     *)
(***************************************************************************)
EXTENDS Integers, Sequences, FiniteSets, TLC

\* ---------------------------------------------------------------- bounds
NumShops == 2        \* tenants
MaxJobs == 2         \* rows of scraping_jobs a behaviour may create
MaxPages == 2        \* pages the upstream serves per product listing
MaxPageLen == 1      \* records on one upstream page
MaxExtId == 2        \* distinct upstream product ids
MaxSessionId == 2    \* distinct client-supplied session ids
MaxMessages == 4     \* rows of chat_messages a behaviour may create
MaxCandidates == 2   \* products handed to one relevance-scored search
MaxSeconds == 2      \* seconds the clock is followed around a point of interest
MaxHistory == 9      \* messages a session holds when a turn on it begins

Shops == 1..NumShops
Procs == {"r1", "r2"}          \* request slots
ChatProcs == {"c1", "c2"}      \* chat request slots
SessionIds == 1..MaxSessionId
UserMessages == {"hello"}
ContentTypes == {"product", "article", "collection", "page"}

\* A run of the model: the shops that send requests, what the upstream
\* catalog can serve, and whether a slot takes a new request after it has
\* answered one. Spec serves requests one after the other (SeqRun); SpecRace
\* overlaps two requests of one shop on a smaller catalog (RaceRun).
SeqRun == [shops |-> Shops, maxId |-> MaxExtId, pages |-> MaxPages,
           len |-> MaxPageLen, titles |-> {"Diet Bar"}, from |-> {"idle", "done"}]
RaceRun == [shops |-> {1}, maxId |-> 1, pages |-> 1, len |-> 1,
            titles |-> {"Diet Bar"}, from |-> {"idle"}]
\* SpecOverlap overlaps two requests of one shop on an upstream that lists
\* one product or another (OverlapRun).
OverlapRun == [shops |-> {1}, maxId |-> MaxExtId, pages |-> 1, len |-> 1,
               titles |-> {"Diet Bar"}, from |-> {"idle"}]
\* SpecReplace serves the requests of one shop one after the other on an
\* upstream that may list a product twice, under two titles (ReplaceRun).
\* SpecClock lets the clock advance between the requests of a small catalog.
ClockRun == [shops |-> Shops, maxId |-> 1, pages |-> 1, len |-> 1,
             titles |-> {"Diet Bar"}, from |-> {"idle", "done"}]
ReplaceRun == [shops |-> Shops, maxId |-> 1, pages |-> 1, len |-> MaxPageLen + 1,
               titles |-> {"Diet Bar", "Diet Shake"}, from |-> {"idle", "done"}]

\* Upstream ids that exist per category: products vary, the other two
\* categories have one upstream record that is present or absent.
ExtIdsOf(D, ct) == IF ct = "product" THEN 1..D.maxId ELSE {1}
\* The titles under which the upstream serves a record of the category
TitlesOf(D, ct) == IF ct = "product" THEN D.titles ELSE {"Diet tips"}
PagesOf(D, ct) == IF ct = "product" THEN D.pages ELSE 1

\* Upstream products without a variant that is available for sale
Unavailable == {2}

\* batchSize of performFullScrape (100 in the source, scaled to the model's
\* record counts so that a run has more than one batch)
batchSize == 2
\* batchSize of performBackgroundScrape and of the cron scrape (50 in the
\* source, scaled likewise)
batchSizeSimple == 1

VARIABLES
    jobs,       \* scraping_jobs: sequence of rows, the index is the row id
    content,    \* shop_content: set of rows
    proc,       \* per request: program counter and local variables; removed
                \* is what its deleteMany removed, badResponse whether an
                \* upstream response without the expected data was passed over
    now,        \* wall clock (Date.now())
    sessions,   \* chat_sessions: sequence of rows, the index is the row id
    messages,   \* chat_messages: sequence of rows in timestamp order
    chat,       \* per chat request: program counter and local variables
    popular,    \* popular_questions: frequency per (shopId, question)
    productMetrics, \* product_analytics: counters per (shopId, productId)
    conversations,  \* conversation_analytics: messageCount per sessionId
    search      \* one call of a search function: its arguments and result

syncVars == <<jobs, content, proc, now>>
chatVars == <<sessions, messages, chat, popular, productMetrics, conversations, search>>
vars == <<jobs, content, proc, now, sessions, messages, chat, popular, productMetrics,
         conversations, search>>

\* ------------------------------------------------------------ error texts
ErrDb == "database error"
ErrNetwork == "fetch failed"
ErrDenied(field) == "Access denied for " \o field \o " field"
ErrNotOk == "GraphQL request failed"
ErrGraphQL == "GraphQL errors"
ErrCollNotOk == "Collections GraphQL request failed"
ErrCollGraphQL == "Collections GraphQL errors"

\* ---------------------------------------------------------------- helpers
Merge(upd, row) == [k \in DOMAIN row |-> IF k \in DOMAIN upd THEN upd[k] ELSE row[k]]

JobIds == 1..Len(jobs)

\* a pre-check that asks for the wrong status
RunningJobsPending(s) == {j \in JobIds : jobs[j].shopId = s /\ jobs[j].status = "pending"}

\* prisma.scrapingJob.findFirst({ where: { shopId, status: 'running' } })
RunningJobs(s) == {j \in JobIds : jobs[j].shopId = s /\ jobs[j].status = "running"}

\* the row written by prisma.scrapingJob.create
NewJob(s, type) ==
    [shopId |-> s, jobType |-> type, status |-> "running", progress |-> 0,
     itemsFound |-> 0, itemsProcessed |-> 0, errorMessage |-> "",
     startedAt |-> now, completedAt |-> 0, createdAt |-> now]

\* prisma.scrapingJob.update({ where: { id }, data })
UpdateJob(j, data) == [jobs EXCEPT ![j] = Merge(data, @)]

\* prisma.scrapingJob.updateMany({ where, data }) over the rows in sel
UpdateManyJobs(sel, data) ==
    [j \in JobIds |-> IF j \in sel THEN Merge(data, jobs[j]) ELSE jobs[j]]

\* allContent.slice(i, i + n), with i counted from 0
Slice(seq, i, n) ==
    SubSeq(seq, i + 1, IF i + n < Len(seq) THEN i + n ELSE Len(seq))

Range(seq) == {seq[k] : k \in 1..Len(seq)}

Min(a, b) == IF a < b THEN a ELSE b

\* the unique index of shop_content
KeyOf(r) == <<r.shopId, r.contentType, r.externalId>>

\* a createMany that stores every row of the batch
CreateManyAll(rows, batch) == rows \cup Range(batch)

\* prisma.shopContent.createMany({ data: batch, skipDuplicates: true }): the
\* rows of the batch are inserted in order, a row whose (shopId, contentType,
\* externalId) is already stored, or was inserted earlier in the batch, is
\* skipped
CreateManySkip(rows, batch) ==
    rows \cup {batch[k] : k \in {i \in 1..Len(batch) :
                    /\ \A r \in rows : KeyOf(r) # KeyOf(batch[i])
                    /\ \A j \in 1..(i - 1) : KeyOf(batch[j]) # KeyOf(batch[i])}}

\* a deleteMany that removes nothing
DeleteShopNone(rows, s) == rows

\* prisma.shopContent.deleteMany({ where: { shopId } })
DeleteShop(rows, s) == {r \in rows : r.shopId # s}

\* prisma.shopContent.deleteMany({ where: { shopId, contentType } })
DeleteShopType(rows, s, ct) == {r \in rows : ~(r.shopId = s /\ r.contentType = ct)}

\* the categories in which shop s has rows
TypesOf(rows, s) == {r.contentType : r \in {x \in rows : x.shopId = s}}

\* the rows of shop s in category ct
RowsOf(rows, s, ct) == {r \in rows : r.shopId = s /\ r.contentType = ct}

\* the row built from an upstream record <<id, title>>; title stands for
\* the fields that are computed from the record (title, content, excerpt,
\* url, tags, searchableContent, keywords)
Row(s, ct, rec) ==
    [shopId |-> s, contentType |-> ct, externalId |-> rec[1], title |-> rec[2]]

\* one upstream page: at most D.len records of the category
PageSeqs(D, ct) ==
    UNION {[1..n -> ExtIdsOf(D, ct) \X TitlesOf(D, ct)] : n \in 0..D.len}

IdleProc ==
    [pc |-> "idle", kind |-> "none", shopId |-> 0, job |-> 0,
     allContent |-> <<>>, totalItems |-> 0, processed |-> 0, i |-> 0,
     page |-> 0, acc |-> <<>>, hasEdges |-> FALSE, skipped |-> {}, removed |-> {},
     badResponse |-> FALSE, error |-> "", resp |-> "none",
     \* Date.now() as a call of shouldAutoScrape read it
     calledAt |-> 0,
     \* the rows the createMany calls of the run have added to shop_content
     inserted |-> 0,
     \* the page loop that runs or has just ended: the cursor of each request
     \* it sent (0 for null) and, of each page it was served, the rows and
     \* the signal ("next": hasNextPage, "last": no next page, "none": no edges)
     requests |-> <<>>, served |-> <<>>,
     \* the upstream node that is turned into a row, and the row
     node |-> <<>>, row |-> <<>>]

Set(p, upd) == proc' = [proc EXCEPT ![p] = Merge(upd, @)]

\* a thrown error: remember its message and jump to the handler
Throw(p, msg, handler) == Set(p, [error |-> msg, pc |-> handler])

\* ============================================================ start_scrape
\* action, case "start_scrape": the pre-check for a running job
StartScrapeCheck(p, s, from) ==
    /\ proc[p].pc \in from
    /\ Len(jobs) < MaxJobs
    /\ IF RunningJobs(s) # {}
       THEN proc' = [proc EXCEPT ![p] =
                Merge([kind |-> "manual", shopId |-> s, pc |-> "done",
                       resp |-> "already_running"], IdleProc)]
       ELSE proc' = [proc EXCEPT ![p] =
                Merge([kind |-> "manual", shopId |-> s, pc |-> "m_create"], IdleProc)]
    /\ UNCHANGED <<jobs, content, now, chatVars>>

\* performFullScrape: prisma.scrapingJob.create
FullCreateJob(p) ==
    /\ proc[p].pc = "m_create"
    /\ \/ /\ jobs' = Append(jobs, NewJob(proc[p].shopId, "full_scrape"))
          /\ Set(p, [job |-> Len(jobs) + 1, pc |-> "m_prog10"])
       \/ /\ Throw(p, ErrDb, "m_fail")
          /\ UNCHANGED jobs
    /\ UNCHANGED <<content, now, chatVars>>

\* performFullScrape: the three fixed progress updates (10, 50, 80)
FullProgress(p, at, percent, next) ==
    /\ proc[p].pc = at
    /\ \/ /\ jobs' = UpdateJob(proc[p].job, [progress |-> percent])
          /\ Set(p, [pc |-> next, page |-> 0, acc |-> <<>>,
                     requests |-> <<>>, served |-> <<>>])
       \/ /\ Throw(p, ErrDb, "m_fail")
          /\ UNCHANGED jobs
    /\ UNCHANGED <<content, now, chatVars>>

\* a fetch that returns after its first page, whatever the page signals
PagedFetchOnePage(p, D, at, ct, field, errNotOk, errGraphQL, next) ==
    /\ proc[p].pc = at
    /\ \/ \E e \in {ErrNetwork, ErrDenied(field)} : Throw(p, e, "m_fail")
       \/ Throw(p, errNotOk, "m_fail")                 \* !response.ok
       \/ Throw(p, errGraphQL, "m_fail")               \* data.errors
       \/ \E ids \in PageSeqs(D, ct), hasNextPage \in BOOLEAN :
            /\ hasNextPage => proc[p].page + 1 < PagesOf(D, ct)
            /\ LET rows == [k \in 1..Len(ids) |-> Row(proc[p].shopId, ct, ids[k])]
                   acc == proc[p].acc \o rows
                   sent == Append(proc[p].requests, proc[p].page)
                   page == [rows |-> rows, signal |-> IF hasNextPage THEN "next" ELSE "last"]
               IN IF FALSE
                  THEN Set(p, [acc |-> acc, page |-> proc[p].page + 1, requests |-> sent,
                               served |-> Append(proc[p].served, page)])
                  ELSE Set(p, [allContent |-> proc[p].allContent \o acc,
                               totalItems |-> proc[p].totalItems + Len(acc),
                               requests |-> sent,
                               served |-> Append(proc[p].served, page),
                               acc |-> <<>>, pc |-> next])
       \/ \* no data.data?.<field>?.edges: the loop ends
          Set(p, [allContent |-> proc[p].allContent \o proc[p].acc,
                  totalItems |-> proc[p].totalItems + Len(proc[p].acc),
                  requests |-> Append(proc[p].requests, proc[p].page),
                  served |-> Append(proc[p].served, [rows |-> <<>>, signal |-> "none"]),
                  acc |-> <<>>, badResponse |-> TRUE, pc |-> next])
    /\ UNCHANGED <<jobs, content, now, chatVars>>

\* one pass of the `while (hasNextPage)` loop of scrapeProducts and of
\* scrapeCollections: request a page, check it, push its records
PagedFetch(p, D, at, ct, field, errNotOk, errGraphQL, next) ==
    /\ proc[p].pc = at
    /\ \/ \E e \in {ErrNetwork, ErrDenied(field)} : Throw(p, e, "m_fail")
       \/ Throw(p, errNotOk, "m_fail")                 \* !response.ok
       \/ Throw(p, errGraphQL, "m_fail")               \* data.errors
       \/ \E ids \in PageSeqs(D, ct), hasNextPage \in BOOLEAN :
            /\ hasNextPage => proc[p].page + 1 < PagesOf(D, ct)
            /\ LET rows == [k \in 1..Len(ids) |-> Row(proc[p].shopId, ct, ids[k])]
                   acc == proc[p].acc \o rows
                   sent == Append(proc[p].requests, proc[p].page)
                   page == [rows |-> rows, signal |-> IF hasNextPage THEN "next" ELSE "last"]
               IN IF hasNextPage
                  THEN Set(p, [acc |-> acc, page |-> proc[p].page + 1, requests |-> sent,
                               served |-> Append(proc[p].served, page)])
                  ELSE Set(p, [allContent |-> proc[p].allContent \o acc,
                               totalItems |-> proc[p].totalItems + Len(acc),
                               requests |-> sent,
                               served |-> Append(proc[p].served, page),
                               acc |-> <<>>, pc |-> next])
       \/ \* no data.data?.<field>?.edges: the loop ends
          Set(p, [allContent |-> proc[p].allContent \o proc[p].acc,
                  totalItems |-> proc[p].totalItems + Len(proc[p].acc),
                  requests |-> Append(proc[p].requests, proc[p].page),
                  served |-> Append(proc[p].served, [rows |-> <<>>, signal |-> "none"]),
                  acc |-> <<>>, badResponse |-> TRUE, pc |-> next])
    /\ UNCHANGED <<jobs, content, now, chatVars>>

scrapeProducts(p, D) ==
    PagedFetch(p, D, "m_products", "product", "products", ErrNotOk, ErrGraphQL, "m_prog50")

scrapeCollections(p, D) ==
    PagedFetch(p, D, "m_collections", "collection", "collections",
               ErrCollNotOk, ErrCollGraphQL, "m_delete")

\* scrapeBlogArticles, the blogs query, and the catch of performFullScrape
\* around it: only "Access denied for blogs field" is swallowed
ScrapeBlogs(p) ==
    /\ proc[p].pc = "m_blogs"
    /\ \/ \E e \in {ErrNetwork, ErrDenied("blogs")} :
            IF e = ErrDenied("blogs")
            THEN Set(p, [skipped |-> proc[p].skipped \cup {"article"}, pc |-> "m_prog80"])
            ELSE Throw(p, e, "m_fail")
       \/ \* a response without data.blogs.edges (a non-OK response and a
          \* response carrying errors are not told apart): no articles
          Set(p, [badResponse |-> TRUE, pc |-> "m_prog80"])
       \/ \E nblogs \in 0..1 :
            Set(p, [pc |-> IF nblogs = 0 THEN "m_prog80" ELSE "m_articles",
                    page |-> 0, acc |-> <<>>, requests |-> <<>>, served |-> <<>>])
    /\ UNCHANGED <<jobs, content, now, chatVars>>

\* scrapeBlogArticles, one pass of the article page loop of a blog
ScrapeArticles(p, D) ==
    /\ proc[p].pc = "m_articles"
    /\ \/ Throw(p, ErrNetwork, "m_fail")
       \/ \E ids \in PageSeqs(D, "article"), hasNextPage \in BOOLEAN :
            /\ hasNextPage => proc[p].page + 1 < PagesOf(D, "article")
            /\ LET rows == [k \in 1..Len(ids) |-> Row(proc[p].shopId, "article", ids[k])]
                   acc == proc[p].acc \o rows
                   sent == Append(proc[p].requests, proc[p].page)
                   page == [rows |-> rows, signal |-> IF hasNextPage THEN "next" ELSE "last"]
               IN IF hasNextPage
                  THEN Set(p, [acc |-> acc, page |-> proc[p].page + 1, requests |-> sent,
                               served |-> Append(proc[p].served, page)])
                  ELSE Set(p, [allContent |-> proc[p].allContent \o acc,
                               totalItems |-> proc[p].totalItems + Len(acc),
                               requests |-> sent,
                               served |-> Append(proc[p].served, page),
                               acc |-> <<>>, pc |-> "m_prog80"])
       \/ \* a response without data.blog.articles.edges, whatever the cause
          Set(p, [allContent |-> proc[p].allContent \o proc[p].acc,
                  totalItems |-> proc[p].totalItems + Len(proc[p].acc),
                  requests |-> Append(proc[p].requests, proc[p].page),
                  served |-> Append(proc[p].served, [rows |-> <<>>, signal |-> "none"]),
                  acc |-> <<>>, badResponse |-> TRUE, pc |-> "m_prog80"])
    /\ UNCHANGED <<jobs, content, now, chatVars>>

\* performFullScrape: prisma.shopContent.deleteMany({ where: { shopId } })
FullDelete(p) ==
    /\ proc[p].pc = "m_delete"
    /\ \/ /\ content' = DeleteShop(content, proc[p].shopId)
          /\ Set(p, [i |-> 0, processed |-> 0, requests |-> <<>>, served |-> <<>>,
                     removed |-> TypesOf(content, proc[p].shopId),
                     pc |-> IF Len(proc[p].allContent) > 0 THEN "m_insert" ELSE "m_complete"])
       \/ /\ Throw(p, ErrDb, "m_fail")
          /\ UNCHANGED content
    /\ UNCHANGED <<jobs, now, chatVars>>

\* performFullScrape: createMany of one batch
FullInsertBatch(p) ==
    /\ proc[p].pc = "m_insert"
    /\ LET batch == Slice(proc[p].allContent, proc[p].i, batchSize)
       IN \/ /\ content' = CreateManySkip(content, batch)
             /\ Set(p, [processed |-> proc[p].processed + Len(batch),
                        inserted |-> proc[p].inserted
                                        + Cardinality(CreateManySkip(content, batch) \ content),
                        pc |-> "m_progress"])
          \/ /\ Throw(p, ErrDb, "m_fail")
             /\ UNCHANGED content
    /\ UNCHANGED <<jobs, now, chatVars>>

\* Math.min(90 + Math.floor((processed / allContent.length) * 10), 100)
FullBatchProgress(processed, total) == Min(90 + ((processed * 10) \div total), 100)

\* performFullScrape: the progress update that ends one pass of the batch loop
FullProgressBatch(p) ==
    /\ proc[p].pc = "m_progress"
    /\ \/ /\ jobs' = UpdateJob(proc[p].job,
                [progress |-> FullBatchProgress(proc[p].processed, Len(proc[p].allContent)),
                 itemsProcessed |-> proc[p].processed])
          /\ Set(p, [i |-> proc[p].i + batchSize,
                     pc |-> IF proc[p].i + batchSize < Len(proc[p].allContent)
                            THEN "m_insert" ELSE "m_complete"])
       \/ /\ Throw(p, ErrDb, "m_fail")
          /\ UNCHANGED jobs
    /\ UNCHANGED <<content, now, chatVars>>

\* performFullScrape: the completing update; the action then answers success
FullComplete(p) ==
    /\ proc[p].pc = "m_complete"
    /\ \/ /\ jobs' = UpdateJob(proc[p].job,
                [status |-> "completed", progress |-> 100,
                 itemsFound |-> proc[p].totalItems,
                 itemsProcessed |-> proc[p].processed, completedAt |-> now])
          /\ Set(p, [pc |-> "done", resp |-> "success"])
       \/ /\ Throw(p, ErrDb, "m_fail")
          /\ UNCHANGED jobs
    /\ UNCHANGED <<content, now, chatVars>>

\* performFullScrape: the catch block, updateMany over the shop's running
\* jobs; a failure of that update is logged and dropped. The error is
\* rethrown and the action answers status 500.
FullFail(p) ==
    /\ proc[p].pc = "m_fail"
    /\ \/ jobs' = UpdateManyJobs(RunningJobs(proc[p].shopId),
                [status |-> "failed", errorMessage |-> proc[p].error, completedAt |-> now])
       \/ UNCHANGED jobs
    /\ Set(p, [pc |-> "done", resp |-> "error500"])
    /\ UNCHANGED <<content, now, chatVars>>

StartScrape(p, D) ==
    \/ \E s \in D.shops : StartScrapeCheck(p, s, D.from)
    \/ FullCreateJob(p)
    \/ FullProgress(p, "m_prog10", 10, "m_products")
    \/ scrapeProducts(p, D)
    \/ FullProgress(p, "m_prog50", 50, "m_blogs")
    \/ ScrapeBlogs(p)
    \/ ScrapeArticles(p, D)
    \/ FullProgress(p, "m_prog80", 80, "m_collections")
    \/ scrapeCollections(p, D)
    \/ FullDelete(p)
    \/ FullInsertBatch(p)
    \/ FullProgressBatch(p)
    \/ FullComplete(p)
    \/ FullFail(p)

\* ======================================================= triggerAutoScrape
\* triggerAutoScrape: the pre-check for a running job
TriggerCheck(p, s, from) ==
    /\ proc[p].pc \in from
    /\ Len(jobs) < MaxJobs
    /\ IF RunningJobs(s) # {}
       THEN proc' = [proc EXCEPT ![p] =
                Merge([kind |-> "auto", shopId |-> s, pc |-> "done",
                       resp |-> "false"], IdleProc)]
       ELSE proc' = [proc EXCEPT ![p] =
                Merge([kind |-> "auto", shopId |-> s, pc |-> "a_create"], IdleProc)]
    /\ UNCHANGED <<jobs, content, now, chatVars>>

\* triggerAutoScrape: create the job, start performBackgroundScrape without
\* awaiting it and return true; a failing create is caught and returns false
TriggerCreateJob(p) ==
    /\ proc[p].pc = "a_create"
    /\ \/ /\ jobs' = Append(jobs, NewJob(proc[p].shopId, "auto_24h"))
          /\ Set(p, [job |-> Len(jobs) + 1, pc |-> "b_prog10", resp |-> "true"])
       \/ /\ Set(p, [error |-> ErrDb, pc |-> "done", resp |-> "false"])
          /\ UNCHANGED jobs
    /\ UNCHANGED <<content, now, chatVars>>

\* performBackgroundScrape: the two fixed progress updates (10, 50)
BgProgress(p, at, percent, next) ==
    /\ proc[p].pc = at
    /\ \/ /\ jobs' = UpdateJob(proc[p].job, [progress |-> percent])
          /\ Set(p, [pc |-> next])
       \/ /\ Throw(p, ErrDb, "b_fail")
          /\ UNCHANGED jobs
    /\ UNCHANGED <<content, now, chatVars>>

\* performBackgroundScrape: the single products request (first: 250); the
\* response is neither checked for ok nor for errors
BgFetch(p, D) ==
    /\ proc[p].pc = "b_fetch"
    /\ \/ \E e \in {ErrNetwork, ErrDenied("products")} : Throw(p, e, "b_fail")
       \/ \E ids \in PageSeqs(D, "product") :
            Set(p, [acc |-> [k \in 1..Len(ids) |-> Row(proc[p].shopId, "product", ids[k])],
                    hasEdges |-> TRUE, pc |-> "b_prog50"])
       \/ \* a response without data.products.edges, whatever the cause
          Set(p, [hasEdges |-> FALSE, badResponse |-> TRUE, pc |-> "b_prog50"])
    /\ UNCHANGED <<jobs, content, now, chatVars>>

\* edges.filter(edge => edge.node.variants.edges.some(v => v.node.availableForSale))
FilterAvailable(rows) == SelectSeq(rows, LAMBDA r : r.externalId \notin Unavailable)

\* performBackgroundScrape: deleteMany of the shop's products, then the
\* filter and map that build the rows to insert
BgDelete(p) ==
    /\ proc[p].pc = "b_delete"
    /\ \/ /\ content' = DeleteShopType(content, proc[p].shopId, "product")
          /\ LET products == FilterAvailable(proc[p].acc)
             IN Set(p, [allContent |-> products, i |-> 0,
                        removed |-> TypesOf(content, proc[p].shopId) \cap {"product"},
                        pc |-> IF Len(products) > 0 THEN "b_insert" ELSE "b_complete"])
       \/ /\ Throw(p, ErrDb, "b_fail")
          /\ UNCHANGED content
    /\ UNCHANGED <<jobs, now, chatVars>>

\* performBackgroundScrape: createMany of one batch
BgInsertBatch(p) ==
    /\ proc[p].pc = "b_insert"
    /\ LET batch == Slice(proc[p].allContent, proc[p].i, batchSizeSimple)
       IN \/ /\ content' = CreateManySkip(content, batch)
             /\ Set(p, [processed |-> proc[p].processed + Len(batch),
                        inserted |-> proc[p].inserted
                                        + Cardinality(CreateManySkip(content, batch) \ content),
                        pc |-> "b_progress"])
          \/ /\ Throw(p, ErrDb, "b_fail")
             /\ UNCHANGED content
    /\ UNCHANGED <<jobs, now, chatVars>>

\* a batch progress that starts again from 0
BgBatchProgressFromZero(i, total) == Min((i * 20) \div total, 90)

\* Math.min(70 + Math.floor((i / products.length) * 20), 90)
BgBatchProgress(i, total) == Min(70 + ((i * 20) \div total), 90)

\* performBackgroundScrape: the progress update that ends one pass of the
\* batch loop
BgProgressBatch(p) ==
    /\ proc[p].pc = "b_progress"
    /\ \/ /\ jobs' = UpdateJob(proc[p].job,
                [progress |-> BgBatchProgress(proc[p].i, Len(proc[p].allContent)),
                 itemsProcessed |-> proc[p].processed])
          /\ Set(p, [i |-> proc[p].i + batchSizeSimple,
                     pc |-> IF proc[p].i + batchSizeSimple < Len(proc[p].allContent)
                            THEN "b_insert" ELSE "b_complete"])
       \/ /\ Throw(p, ErrDb, "b_fail")
          /\ UNCHANGED jobs
    /\ UNCHANGED <<content, now, chatVars>>

\* performBackgroundScrape: the completing update
BgComplete(p) ==
    /\ proc[p].pc = "b_complete"
    /\ \/ /\ jobs' = UpdateJob(proc[p].job,
                [status |-> "completed", progress |-> 100,
                 itemsFound |-> proc[p].processed,
                 itemsProcessed |-> proc[p].processed, completedAt |-> now])
          /\ Set(p, [pc |-> "done"])
       \/ /\ Throw(p, ErrDb, "b_fail")
          /\ UNCHANGED jobs
    /\ UNCHANGED <<content, now, chatVars>>

\* triggerAutoScrape: the .catch of the background promise, an update of the
\* job by id; a failure of that update is logged and dropped
BgFail(p) ==
    /\ proc[p].pc = "b_fail"
    /\ \/ jobs' = UpdateJob(proc[p].job,
                [status |-> "failed", errorMessage |-> proc[p].error, completedAt |-> now])
       \/ UNCHANGED jobs
    /\ Set(p, [pc |-> "done"])
    /\ UNCHANGED <<content, now, chatVars>>

AutoScrape(p, D) ==
    \/ \E s \in D.shops : TriggerCheck(p, s, D.from)
    \/ TriggerCreateJob(p)
    \/ BgProgress(p, "b_prog10", 10, "b_fetch")
    \/ BgFetch(p, D)
    \/ BgProgress(p, "b_prog50", 50, IF proc[p].hasEdges THEN "b_delete" ELSE "b_complete")
    \/ BgDelete(p)
    \/ BgInsertBatch(p)
    \/ BgProgressBatch(p)
    \/ BgComplete(p)
    \/ BgFail(p)

\* ======================================================== shouldAutoScrape
\* 1000 * 60 * 60, the milliseconds of one hour
msPerHour == 1000 * 60 * 60

\* the threshold of shouldAutoScrape, in hours
thresholdHours == 24

\* a threshold that has to be exceeded
NeedsScrapingAfter(t, completedAt) == t - completedAt > thresholdHours * msPerHour

\* hoursSinceLastScrape >= 24, where hoursSinceLastScrape is
\* (Date.now() - completedAt) / (1000 * 60 * 60)
NeedsScraping(t, completedAt) == t - completedAt >= thresholdHours * msPerHour

\* findFirst({ where: { shopId, status: 'completed' }, orderBy: { completedAt:
\* 'desc' } }): the jobs it may return, none when the shop has none
LastSuccessfulScrape(s) ==
    {j \in JobIds :
        /\ jobs[j].shopId = s /\ jobs[j].status = "completed"
        /\ \A k \in JobIds :
             (jobs[k].shopId = s /\ jobs[k].status = "completed")
             => jobs[k].completedAt <= jobs[j].completedAt}

\* shouldAutoScrape(shopId): true without a completed job or when the last
\* completion is 24 hours old; a lookup that throws is answered false
shouldAutoScrape(p, s, from) ==
    /\ proc[p].pc \in from
    /\ LET call == [kind |-> "should", shopId |-> s, pc |-> "done", calledAt |-> now]
       IN \/ /\ LastSuccessfulScrape(s) = {}
             /\ proc' = [proc EXCEPT ![p] = Merge(call @@ [resp |-> "true"], IdleProc)]
          \/ \E j \in LastSuccessfulScrape(s) :
                proc' = [proc EXCEPT ![p] =
                    Merge(call @@ [resp |-> IF NeedsScraping(now, jobs[j].completedAt)
                                            THEN "true" ELSE "false"], IdleProc)]
          \/ proc' = [proc EXCEPT ![p] =
                    Merge(call @@ [resp |-> "false", error |-> ErrDb], IdleProc)]
    /\ UNCHANGED <<jobs, content, now, chatVars>>

\* the values of Date.now() a behaviour passes through: the seconds after the
\* start and the seconds around one threshold later
ClockValues ==
    {1 + 1000 * a + b * (thresholdHours * msPerHour - 1000) :
        a \in 0..MaxSeconds, b \in 0..1}

\* time passes
Tick ==
    /\ \E t \in ClockValues : t > now /\ now' = t
    /\ UNCHANGED <<jobs, content, proc, chatVars>>

\* ================================================================ api.cron
\* the window of the cron action, in hours: 23 * 60 * 60 * 1000 ms
cronHours == 23

\* findFirst({ where: { shopId, status: 'completed', createdAt: { gte:
\* new Date(Date.now() - 23 * 60 * 60 * 1000) } } }): the jobs it may return
RecentJob(s) ==
    {j \in JobIds :
        /\ jobs[j].shopId = s /\ jobs[j].status = "completed"
        /\ jobs[j].createdAt >= now - cronHours * msPerHour}

\* action of api.cron, for one shop of its loop: without the bearer secret
\* the request is answered 401 before any shop is looked at; a shop with a
\* recent job is skipped, another shop is taken up (and counted as a
\* success); a lookup that throws is counted as an error
cronAction(p, s, authorized, from) ==
    /\ proc[p].pc \in from
    /\ LET call == [kind |-> "cron", shopId |-> s, pc |-> "done", calledAt |-> now]
       IN IF ~authorized
          THEN proc' = [proc EXCEPT ![p] = Merge(call @@ [resp |-> "unauthorized"], IdleProc)]
          ELSE \/ proc' = [proc EXCEPT ![p] =
                        Merge(call @@ [resp |-> IF RecentJob(s) # {} THEN "skipped"
                                                ELSE "processed"], IdleProc)]
               \/ proc' = [proc EXCEPT ![p] =
                        Merge(call @@ [resp |-> "error", error |-> ErrDb], IdleProc)]
    /\ UNCHANGED <<jobs, content, now, chatVars>>

\* the values of Date.now() around the start and around one cron window later
CronClockValues ==
    {1 + 1000 * a + b * (cronHours * msPerHour - 1000) :
        a \in 0..MaxSeconds, b \in 0..1}

\* time passes
CronTick ==
    /\ \E t \in CronClockValues : t > now /\ now' = t
    /\ UNCHANGED <<jobs, content, proc, chatVars>>

\* ================================================================== search
\* String.prototype.toLowerCase on the letters the model's texts use
LowerChar(ch) ==
    IF ch = "D" THEN "d" ELSE IF ch = "B" THEN "b" ELSE IF ch = "S" THEN "s"
    ELSE IF ch = "T" THEN "t" ELSE IF ch = "C" THEN "c" ELSE IF ch = "H" THEN "h"
    ELSE ch

RECURSIVE toLowerCase(_)
toLowerCase(s) ==
    IF Len(s) = 0 THEN ""
    ELSE LowerChar(SubSeq(s, 1, 1)) \o toLowerCase(SubSeq(s, 2, Len(s)))

\* String.prototype.trim
RECURSIVE trim(_)
trim(s) ==
    IF Len(s) = 0 THEN s
    ELSE IF SubSeq(s, 1, 1) = " " THEN trim(SubSeq(s, 2, Len(s)))
    ELSE IF SubSeq(s, Len(s), Len(s)) = " " THEN trim(SubSeq(s, 1, Len(s) - 1))
    ELSE s

\* String.prototype.includes
includes(s, t) ==
    \E i \in 1..(Len(s) - Len(t) + 1) : SubSeq(s, i, i + Len(t) - 1) = t

\* { contains: text, mode: 'insensitive' }
ContainsInsensitive(s, t) == includes(toLowerCase(s), toLowerCase(t))

\* s.replace(new RegExp(mistake, 'gi'), to) on a lowercased s
RECURSIVE ReplaceAll(_, _, _)
ReplaceAll(s, mistake, to) ==
    IF Len(s) < Len(mistake) THEN s
    ELSE IF SubSeq(s, 1, Len(mistake)) = mistake
    THEN to \o ReplaceAll(SubSeq(s, Len(mistake) + 1, Len(s)), mistake, to)
    ELSE SubSeq(s, 1, 1) \o ReplaceAll(SubSeq(s, 2, Len(s)), mistake, to)

\* s.split(/\s+/): the pieces between runs of spaces (an empty piece at
\* either end included, as split returns it)
RECURSIVE SplitFrom(_, _)
SplitFrom(s, piece) ==
    IF Len(s) = 0 THEN <<piece>>
    ELSE IF SubSeq(s, 1, 1) = " "
    THEN IF Len(s) > 1 /\ SubSeq(s, 2, 2) = " "
         THEN SplitFrom(SubSeq(s, 2, Len(s)), piece)
         ELSE <<piece>> \o SplitFrom(SubSeq(s, 2, Len(s)), "")
    ELSE SplitFrom(SubSeq(s, 2, Len(s)), piece \o SubSeq(s, 1, 1))

split(s) == SplitFrom(s, "")

\* the where clause of searchStoreContent
Where(r, shopId, contentTypes, text) ==
    /\ r.shopId = shopId
    /\ r.isActive
    /\ contentTypes # <<>> => r.contentType \in Range(contentTypes)
    /\ text # "" =>
        \/ ContainsInsensitive(r.title, text)
        \/ includes(r.searchableContent, toLowerCase(text))
        \/ ContainsInsensitive(r.keywords, text)
        \/ ContainsInsensitive(r.tags, text)

\* orderBy: { updatedAt: 'desc' }: the orders of the rows S the database may
\* return (rows of equal updatedAt in any order)
OrderedByUpdatedAt(S) ==
    {q \in [1..Cardinality(S) -> S] :
        /\ \A i, j \in DOMAIN q : i # j => q[i] # q[j]
        /\ \A i, j \in DOMAIN q : i < j => q[i].updatedAt >= q[j].updatedAt}

\* searchStoreContent (api.chat) and searchStoreContentPrisma (app.chatbot):
\* the item lists findMany may return
searchStoreContent(shopId, args) ==
    LET text == trim(args.query)
        found == {r \in content : Where(r, shopId, args.contentTypes, text)}
    IN {Slice(q, 0, args.limit) : q \in OrderedByUpdatedAt(found)}

\* the corrections table of intelligentProductSearch, in key order
corrections ==
    << <<"chocolat", "chocolate">>, <<"chokolate", "chocolate">>,
       <<"choclate", "chocolate">>, <<"chocolade", "chocolate">>,
       <<"deit", "diet">>, <<"dieet", "diet">>, <<"lite", "diet">>,
       <<"light", "diet">>, <<"low cal", "diet">>, <<"lowcal", "diet">> >>

\* "Apply corrections": every mistake is replaced in turn
RECURSIVE ApplyCorrections(_, _)
ApplyCorrections(s, k) ==
    IF k > Len(corrections) THEN s
    ELSE ApplyCorrections(ReplaceAll(s, corrections[k][1], corrections[k][2]), k + 1)

\* correctedQuery of intelligentProductSearch
CorrectedQuery(query) == ApplyCorrections(trim(toLowerCase(query)), 1)

\* the score intelligentProductSearch gives a product
Score(product, query) ==
    LET correctedQuery == CorrectedQuery(query)
        words == SelectSeq(split(correctedQuery), LAMBDA w : Len(w) > 2)
        title == toLowerCase(product.title)
        body == toLowerCase(product.content)
        searchable == toLowerCase(product.searchableContent)
        keywords == toLowerCase(product.keywords)
        W == 1..Len(words)
        n(field) == Cardinality({k \in W : includes(field, words[k])})
    IN (IF includes(title, correctedQuery) THEN 100 ELSE 0)
       + (IF \A k \in W : includes(title, words[k]) THEN 80 ELSE 0)
       + (IF \A k \in W : \/ includes(title, words[k]) \/ includes(body, words[k])
                          \/ includes(searchable, words[k]) \/ includes(keywords, words[k])
          THEN 60 ELSE 0)
       + 20 * n(title) + 10 * n(body) + 15 * n(searchable) + 25 * n(keywords)
       + (IF includes(correctedQuery, "diet") /\ includes(correctedQuery, "chocolate")
          THEN (IF includes(title, "diet")
                   /\ (includes(title, "chocolate") \/ includes(body, "chocolate"))
                THEN 150 ELSE 0)
               + (IF includes(title, "chocolate")
                     /\ (includes(body, "diet") \/ includes(body, "meal replacement"))
                  THEN 120 ELSE 0)
          ELSE 0)

\* intelligentProductSearch: filter(score > 0), then the sort by descending
\* score, which is stable (products of equal score keep their input order)
intelligentProductSearch(products, query) ==
    LET score == [k \in 1..Len(products) |-> Score(products[k], query)]
        keep == {k \in 1..Len(products) : score[k] > 0}
        before(a, b) == score[a] > score[b] \/ (score[a] = score[b] /\ a < b)
        pos(k) == 1 + Cardinality({a \in keep : before(a, k)})
    IN [i \in 1..Cardinality(keep) |-> products[CHOOSE k \in keep : pos(k) = i]]

\* shop_content rows with the fields the searches read
Product(s, id, title, active, at) ==
    [shopId |-> s, contentType |-> "product", externalId |-> id, title |-> title,
     content |-> "", searchableContent |-> toLowerCase(title), keywords |-> title,
     tags |-> "", isActive |-> active, updatedAt |-> at, lastScraped |-> at]

Article(s, id, title, active, at) ==
    [Product(s, id, title, active, at) EXCEPT !.contentType = "article", !.keywords = ""]

\* the rows a run of the searches may find in shop_content
SearchRows ==
    {Product(1, 1, "Diet Bar", TRUE, 1), Product(1, 2, "Diet Shake", TRUE, 2),
     Product(1, 3, "Diet Soup", FALSE, 2), Product(2, 1, "Diet Bar", TRUE, 1),
     Article(1, 1, "Diet tips", TRUE, 3), Product(1, 4, "Cocoa", TRUE, 2)}

SearchQueries == {"diet", " Diet ", "bar", "soup", ""}

IdleSearch ==
    [mode |-> "none", shopId |-> 0, query |-> "", contentTypes |-> <<>>,
     limit |-> 0, products |-> <<>>, items |-> <<>>, correctedQuery |-> ""]

\* one call of searchStoreContent on the stored rows
SearchContent(s, query, contentTypes, limit) ==
    /\ search.mode = "none"
    /\ \E items \in searchStoreContent(s, [query |-> query, contentTypes |-> contentTypes,
                                           limit |-> limit]) :
        search' = [mode |-> "substring", shopId |-> s, query |-> query,
                   contentTypes |-> contentTypes, limit |-> limit,
                   products |-> <<>>, items |-> items, correctedQuery |-> ""]
    /\ UNCHANGED <<syncVars, sessions, messages, chat, popular, productMetrics, conversations>>

\* the lists of distinct rows of S of length n
ListsOf(S, n) ==
    {q \in [1..n -> S] : \A i, j \in 1..n : i # j => q[i] # q[j]}

\* one call of intelligentProductSearch on a list of stored rows
SearchRelevance(s, n, query) ==
    /\ search.mode = "none"
    /\ \E products \in ListsOf(content, n) :
        search' = [mode |-> "relevance", shopId |-> s, query |-> query,
                   contentTypes |-> <<>>, limit |-> 0, products |-> products,
                   items |-> intelligentProductSearch(products, query),
                   correctedQuery |-> CorrectedQuery(query)]
    /\ UNCHANGED <<syncVars, sessions, messages, chat, popular, productMetrics, conversations>>

\* =============================================================== normalize
\* JavaScript values of the fields of an upstream record: a string, an array
\* of strings, null or undefined
Str(t) == [type |-> "string", text |-> t, items |-> <<>>]
Arr(q) == [type |-> "array", text |-> "", items |-> q]
Null == [type |-> "null", text |-> "", items |-> <<>>]
Undefined == [type |-> "undefined", text |-> "", items |-> <<>>]

Absent(v) == v.type \in {"null", "undefined"}

\* Array.prototype.join
RECURSIVE join(_, _)
join(q, sep) ==
    IF Len(q) = 0 THEN ""
    ELSE IF Len(q) = 1 THEN q[1]
    ELSE q[1] \o sep \o join(Tail(q), sep)

\* the text of v inside a template literal or to the left of + '...'
String(v) ==
    IF v.type = "string" THEN v.text
    ELSE IF v.type = "array" THEN join(v.items, ",")
    ELSE v.type

\* Boolean(v), as filter(Boolean), || and ! read it
ToBoolean(v) ==
    \/ v.type = "array"
    \/ v.type = "string" /\ v.text # ""

\* a || b
Or(a, b) == IF ToBoolean(a) THEN a ELSE b

\* v?.join(sep)
OptionalJoin(v, sep) == IF Absent(v) THEN Undefined ELSE Str(join(v.items, sep))

\* v?.substring(0, n)
OptionalSubstring(v, n) ==
    IF Absent(v) THEN Undefined
    ELSE Str(SubSeq(v.text, 1, IF n < Len(v.text) THEN n ELSE Len(v.text)))

\* text.replace(/<[^>]*>/g, ' ')
RECURSIVE StripTags(_)
StripTags(s) ==
    IF Len(s) = 0 THEN ""
    ELSE LET closing == {k \in 2..Len(s) : SubSeq(s, k, k) = ">"}
         IN IF SubSeq(s, 1, 1) = "<" /\ closing # {}
            THEN LET k == CHOOSE x \in closing : \A y \in closing : x <= y
                 IN " " \o StripTags(SubSeq(s, k + 1, Len(s)))
            ELSE SubSeq(s, 1, 1) \o StripTags(SubSeq(s, 2, Len(s)))

\* text.replace(/\s+/g, ' ')
RECURSIVE CollapseSpaces(_)
CollapseSpaces(s) ==
    IF Len(s) < 2 THEN s
    ELSE IF SubSeq(s, 1, 2) = "  " THEN CollapseSpaces(SubSeq(s, 2, Len(s)))
    ELSE SubSeq(s, 1, 1) \o CollapseSpaces(SubSeq(s, 2, Len(s)))

\* processContentForSearch
processContentForSearch(text) ==
    IF text = "" THEN ""
    ELSE toLowerCase(trim(CollapseSpaces(StripTags(text))))

\* the characters \w and \s match in a lowercased text
WordOrSpace == "abcdefghijklmnopqrstuvwxyz0123456789_ "

\* text.replace(/[^\w\s]/g, ' ') on a lowercased text
RECURSIVE StripPunctuation(_)
StripPunctuation(s) ==
    IF Len(s) = 0 THEN ""
    ELSE (IF includes(WordOrSpace, SubSeq(s, 1, 1)) THEN SubSeq(s, 1, 1) ELSE " ")
         \o StripPunctuation(SubSeq(s, 2, Len(s)))

\* the words extractKeywords leaves out
StopWords ==
    {"the", "and", "for", "are", "but", "not", "you", "all", "can", "had", "her",
     "was", "one", "our", "out", "day", "get", "has", "him", "his", "how", "its",
     "may", "new", "now", "old", "see", "two", "way", "who", "boy", "did", "man",
     "men", "put", "say", "she", "too", "use"}

\* [...new Set(words)]: the first occurrence of every word, in order
RECURSIVE UniqueWords(_)
UniqueWords(q) ==
    IF Len(q) = 0 THEN <<>>
    ELSE LET front == UniqueWords(SubSeq(q, 1, Len(q) - 1))
         IN IF q[Len(q)] \in Range(front) THEN front ELSE Append(front, q[Len(q)])

\* extractKeywords(text, title)
extractKeywords(text, title) ==
    IF ~ToBoolean(text) /\ ~ToBoolean(title) THEN ""
    ELSE LET combined == toLowerCase(String(title) \o " " \o String(text))
             words == SelectSeq(split(StripPunctuation(combined)),
                                LAMBDA word : Len(word) > 3 /\ word \notin StopWords)
         IN join(Slice(UniqueWords(words), 0, 20), ", ")

\* the fields of the row scrapeProducts builds from one product node
ProductRow(product) ==
    LET parts == <<product.title, product.description, product.vendor,
                   product.productType, OptionalJoin(product.tags, " "),
                   OptionalJoin(product.variants, " "),
                   OptionalJoin(product.collections, " ")>>
        kept == SelectSeq(parts, ToBoolean)
    IN [title |-> String(product.title),
        content |-> Or(product.description, Str("")).text,
        excerpt |-> Or(Str(String(OptionalSubstring(product.description, 200)) \o "..."),
                       Str("")).text,
        tags |-> Or(OptionalJoin(product.tags, ", "), Str("")).text,
        searchableContent |->
            processContentForSearch(join([k \in 1..Len(kept) |-> String(kept[k])], " ")),
        keywords |->
            extractKeywords(Str(String(product.description) \o " "
                                \o String(OptionalJoin(product.tags, " ")) \o " "
                                \o String(product.vendor) \o " "
                                \o String(product.productType)),
                            product.title)]

\* the fields of the row scrapeCollections builds from one collection node
CollectionRow(collection) ==
    LET kept == SelectSeq(<<collection.title, collection.description>>, ToBoolean)
    IN [title |-> String(collection.title),
        content |-> Or(collection.description, Str("")).text,
        excerpt |-> Or(Str(String(OptionalSubstring(collection.description, 200)) \o "..."),
                       Str("")).text,
        tags |-> "",
        searchableContent |->
            processContentForSearch(join([k \in 1..Len(kept) |-> String(kept[k])], " ")),
        keywords |-> extractKeywords(collection.description, collection.title)]

\* the product nodes the upstream may serve: every optional field present,
\* empty, null or left out
ProductNodes ==
    [title : {Str("Diet Bar"), Str("Cocoa")},
     description : {Str("<b>Dark</b> nibs, the best!"), Str(""), Null, Undefined},
     vendor : {Str("Tasty"), Null, Undefined},
     productType : {Str("Snack"), Str("")},
     tags : {Arr(<<"Sweet", "Dark">>), Arr(<<>>), Null, Undefined},
     variants : {Arr(<<"Box">>), Undefined},
     collections : {Arr(<<>>)}]

\* the collection nodes the upstream may serve
CollectionNodes ==
    [title : {Str("Diet Snacks"), Str("Dark")},
     description : {Str("Best <i>dark</i>  bars."), Str(""), Null, Undefined}]

\* one product node of a page of scrapeProducts is turned into its row
NormalizeProduct(p, from) ==
    /\ proc[p].pc \in from
    /\ \E product \in ProductNodes :
        proc' = [proc EXCEPT ![p] =
            Merge([kind |-> "product", pc |-> "done", node |-> product,
                   row |-> ProductRow(product)], IdleProc)]
    /\ UNCHANGED <<jobs, content, now, chatVars>>

\* one collection node of a page of scrapeCollections is turned into its row
NormalizeCollection(p, from) ==
    /\ proc[p].pc \in from
    /\ \E collection \in CollectionNodes :
        proc' = [proc EXCEPT ![p] =
            Merge([kind |-> "collection", pc |-> "done", node |-> collection,
                   row |-> CollectionRow(collection)], IdleProc)]
    /\ UNCHANGED <<jobs, content, now, chatVars>>

\* ================================================================ chat turn
\* the fallback of the public route for a failed follow-up call
FollowUpFallback == "I found some great options for you!"

\* the error text of both catch blocks
DefaultError == "I apologize, but I'm having trouble right now. Please try again in a moment."

\* the public route without a credential and without a configured text
ServiceUnavailable == "Service temporarily unavailable"

\* the app route without a credential
NoKeyApp == "OpenAI API key not configured. Please add your API key in the bot configuration."

\* error.message of a failed provider call or of JSON.parse
ErrProvider == "500 upstream connect error"
ErrRateLimit == "429 rate limit exceeded"
ErrJson == "Unexpected token in JSON"
ErrUnique == "Unique constraint failed on the fields: (sessionId)"

\* shop.botConfig as a request loads it: whether a credential is there
\* (openaiApiKey or OPENAI_API_KEY), the configured error text ("" when it is
\* not set) and enableConversationAnalytics
BotConfigs ==
    [apiKey : BOOLEAN, errorMessage : {"", "Sorry, we are closed."},
     enableConversationAnalytics : BOOLEAN]

DefaultBotConfig ==
    [apiKey |-> TRUE, errorMessage |-> "", enableConversationAnalytics |-> TRUE]

\* error.headers of a rate-limit error: "retry-after-ms" and "retry-after",
\* each absent (<<>>) or a number (<<v>>); Number(undefined) is NaN
NoHeaders == [ms |-> <<>>, s |-> <<>>]
Headers == [ms : {<<>>, <<0>>, <<3000>>, <<6000>>}, s : {<<>>, <<2>>}]

\* the tools a reply may request; "search_products" is declared by the app
\* route only, a name that is not declared runs no tool
ToolsOf(route) ==
    IF route = "app" THEN {"search_products", "search_store_content"}
    ELSE {"search_store_content"}

\* A run of the chat model: the shops and session ids of the requests, the
\* configurations they load, the headers a rate-limit error carries, and
\* the tool requests of the provider (a name that is not declared, arguments
\* that do not parse), and whether a slot takes a new request after it has
\* answered one. SpecTurn
\* runs one turn on every input (TurnRun); SpecChat overlaps two turns on
\* one configuration (ChatRaceRun).
TurnRun == [routes |-> {"public", "app"}, shops |-> {1}, sids |-> {1}, configs |-> BotConfigs,
            headers |-> Headers, undeclared |-> {"undeclared"}, parses |-> BOOLEAN,
            messages |-> {"hello", "hi"}, dbFaults |-> TRUE, room |-> MaxMessages,
            from |-> {"idle"}]
ChatRaceRun == [routes |-> {"public"}, shops |-> Shops, sids |-> {1}, configs |-> {DefaultBotConfig},
                headers |-> {NoHeaders}, undeclared |-> {}, parses |-> {TRUE},
                messages |-> UserMessages, dbFaults |-> FALSE, room |-> MaxMessages,
                from |-> {"idle"}]
\* SpecAsk runs the turns of one shop one after the other, on questions that
\* differ in letter case and surrounding blanks only (AskRun).
AskRun == [routes |-> {"public", "app"}, shops |-> {1}, sids |-> {1},
           configs |-> {DefaultBotConfig}, headers |-> {NoHeaders}, undeclared |-> {},
           parses |-> {TRUE}, messages |-> {"hello", " Hello "}, dbFaults |-> FALSE,
           room |-> MaxMessages, from |-> {"idle", "done"}]
\* SpecHistory runs one turn on a session that holds up to MaxHistory
\* messages (HistoryRun).
HistoryRun == [routes |-> {"public", "app"}, shops |-> {1}, sids |-> {1},
               configs |-> {DefaultBotConfig}, headers |-> {NoHeaders}, undeclared |-> {},
               parses |-> {TRUE}, messages |-> UserMessages, dbFaults |-> FALSE,
               room |-> MaxHistory + 1, from |-> {"idle"}]

\* maxRetries = 2, the default of createChatCompletionWithRetry
maxRetries == 2

\* the hard cap of one wait, in ms
capMs == 5000

\* a header counts as soon as it is a number
TruthyPresent(h) == h # <<>>

\* a || b of JavaScript on numbers: NaN (<<>>) and 0 are falsy
Truthy(h) == h # <<>> /\ h[1] # 0

\* a wait that is not capped
WaitMsUncapped(h, attempt) ==
    IF Truthy(h.ms) THEN h.ms[1]
    ELSE IF Truthy(h.s) THEN h.s[1] * 1000
    ELSE 1000 * (attempt + 1)

\* retryAfterMs and waitMs of createChatCompletionWithRetry
WaitMs(h, attempt) ==
    LET retryAfterMs ==
            IF Truthy(h.ms) THEN h.ms[1]
            ELSE IF Truthy(h.s) THEN h.s[1] * 1000
            ELSE 1000 * (attempt + 1)
    IN Min(IF retryAfterMs # 0 THEN retryAfterMs ELSE 1000, capMs)

\* a retry after every error
RetryAllowedAny(status, attempt) == attempt < maxRetries

\* status === 429 && attempt < maxRetries
RetryAllowed(status, attempt) == status = 429 /\ attempt < maxRetries

\* what the first reply of the provider may ask for: tool_calls[0] with its
\* name and its arguments, a JSON text that parses (ok) to value or does not
ToolCalls(R, route) ==
    [name : ToolsOf(route) \cup R.undeclared, ok : R.parses,
     value : {[query |-> "diet", contentTypes |-> <<>>, limit |-> 5]}]

NoToolCall == [name |-> "none", ok |-> TRUE,
               value |-> [query |-> "", contentTypes |-> <<>>, limit |-> 5]]

NullResults == [kind |-> "null", items |-> <<>>]

IdleChat ==
    [pc |-> "idle", route |-> "none", shopId |-> 0, sessionId |-> 0,
     message |-> "", botConfig |-> DefaultBotConfig, chatSession |-> 0,
     history |-> <<>>, prompt |-> <<>>, assistant |-> "", toolCalled |-> FALSE,
     toolCall |-> NoToolCall, functionResults |-> NullResults, lostCreate |-> FALSE, resp |-> "none", body |-> "",
     \* createChatCompletionWithRetry: which call runs (1 the first, 2 the
     \* follow-up), its attempt counter, the pending wait and the headers of
     \* the last error
     call |-> 0, attempt |-> 0, waitMs |-> 0,
     \* bookkeeping: the requests sent and the time waited in the current
     \* call, the status of its last reply, the tools run, what was persisted,
     \* the error that ended the turn and the exposures not yet written
     tries |-> 0, waited |-> 0, lastStatus |-> 0, toolRuns |-> 0,
     savedUser |-> FALSE, savedAssistant |-> FALSE, tracked |-> FALSE,
     error |-> "", failedAt |-> "none", detached |-> {},
     \* analytics: the message count read for the conversation row, the
     \* products the turn exposed, the analytics operations that failed;
     \* noMatch: the retrieval search of the turn found nothing; replyNull:
     \* the last reply of the provider had no text (content null)
     messageCount |-> 0, exposed |-> {}, faults |-> {},
     \* error.headers of the rate-limit error the loop is waiting after
     hint |-> NoHeaders,
     noMatch |-> FALSE, replyNull |-> FALSE]

SetChat(c, upd) == chat' = [chat EXCEPT ![c] = Merge(upd, @)]

\* the action returns with the body text: its locals are gone, the response,
\* what identifies the request and the bookkeeping stay
Returned(rec, kind, text) ==
    Merge([pc |-> "done", resp |-> kind, body |-> text, route |-> rec.route,
           shopId |-> rec.shopId, sessionId |-> rec.sessionId,
           botConfig |-> rec.botConfig, lostCreate |-> rec.lostCreate,
           message |-> rec.message, savedUser |-> rec.savedUser,
           savedAssistant |-> rec.savedAssistant, tracked |-> rec.tracked,
           failedAt |-> rec.failedAt,
           detached |-> rec.detached, exposed |-> rec.exposed,
           faults |-> rec.faults, noMatch |-> rec.noMatch,
           replyNull |-> rec.replyNull],
          IdleChat)

\* a thrown error: remember its message and where it came from, and jump to
\* the catch of the action
ChatThrow(c, msg, at) == SetChat(c, [error |-> msg, failedAt |-> at, pc |-> "c_catch"])

\* prisma.chatSession.findUnique({ where: { sessionId } }): the row id, 0 for null
FindSession(sid) ==
    IF \E k \in 1..Len(sessions) : sessions[k].sessionId = sid
    THEN CHOOSE k \in 1..Len(sessions) : sessions[k].sessionId = sid
    ELSE 0

\* include: { messages: { orderBy: { timestamp: 'asc' } } }
MessagesOf(k) == SelectSeq(messages, LAMBDA m : m.session = k)

\* the content of the system message: the configured prompt and the store
\* information
SystemPrompt == "systemPrompt"

\* a window on the oldest messages, .slice(0, 8)
First8(seq) == IF Len(seq) <= 8 THEN seq ELSE SubSeq(seq, 1, 8)

\* (chatSession.messages || []).slice(-8)
Last8(seq) == IF Len(seq) <= 8 THEN seq ELSE SubSeq(seq, Len(seq) - 7, Len(seq))

\* .map(msg => ({ role: msg.role, content: msg.content }))
AsPrompt(seq) == [k \in 1..Len(seq) |-> [role |-> seq[k].role, content |-> seq[k].content]]

\* action of api.chat (route "public") and of app.chatbot (route "app"): the
\* form data is read and the shop and its bot configuration are loaded; the
\* public route checks the credential here and answers without it
ChatReceive(c, route, s, sid, msg, cfg, from, room) ==
    /\ chat[c].pc \in from
    /\ Len(messages) < room
    /\ LET req == Merge([route |-> route, shopId |-> s, sessionId |-> sid,
                         message |-> msg, botConfig |-> cfg], IdleChat)
       IN IF route = "public" /\ ~cfg.apiKey
          THEN chat' = [chat EXCEPT ![c] =
                    Returned([req EXCEPT !.failedAt = "key"], "error",
                             IF cfg.errorMessage # "" THEN cfg.errorMessage
                             ELSE ServiceUnavailable)]
          ELSE chat' = [chat EXCEPT ![c] = Merge([pc |-> "c_find"], req)]
    /\ UNCHANGED <<sessions, messages, popular, productMetrics, conversations, search, syncVars>>

\* "Get or create chat session": the findUnique
ChatFindSession(c) ==
    /\ chat[c].pc = "c_find"
    /\ LET k == FindSession(chat[c].sessionId)
       IN SetChat(c, [chatSession |-> k,
                      history |-> IF k = 0 THEN <<>> ELSE MessagesOf(k),
                      pc |-> IF k = 0 THEN "c_create" ELSE "c_user"])
    /\ UNCHANGED <<sessions, messages, popular, productMetrics, conversations, search, syncVars>>

\* "Get or create chat session": the create; the unique index on sessionId
\* rejects a second row, the rejection is thrown to the catch of the action
ChatCreateSession(c) ==
    /\ chat[c].pc = "c_create"
    /\ IF FindSession(chat[c].sessionId) # 0
       THEN /\ SetChat(c, [lostCreate |-> TRUE, error |-> ErrUnique,
                           failedAt |-> "create", pc |-> "c_catch"])
            /\ UNCHANGED sessions
       ELSE /\ sessions' = Append(sessions,
                    [sessionId |-> chat[c].sessionId, shopId |-> chat[c].shopId])
            /\ SetChat(c, [chatSession |-> Len(sessions) + 1, pc |-> "c_user"])
    /\ UNCHANGED <<messages, popular, productMetrics, conversations, search, syncVars>>

\* a turn that goes on without storing the user's message
ChatSaveUserLate(c) ==
    /\ chat[c].pc = "c_user"
    /\ SetChat(c, [pc |-> "c_prompt"])
    /\ UNCHANGED <<sessions, messages, popular, productMetrics, conversations, search, syncVars>>

\* "Save user message"
ChatSaveUser(c) ==
    /\ chat[c].pc = "c_user"
    /\ messages' = Append(messages,
            [session |-> chat[c].chatSession, role |-> "user",
             content |-> chat[c].message])
    /\ SetChat(c, [savedUser |-> TRUE, pc |-> "c_prompt"])
    /\ UNCHANGED <<sessions, popular, productMetrics, conversations, search, syncVars>>

\* conversationHistory: the last 8 messages loaded with the session, then the
\* new message; the app route checks the credential here and answers without
\* it
ChatPrompt(c) ==
    /\ chat[c].pc = "c_prompt"
    /\ IF chat[c].route = "app" /\ ~chat[c].botConfig.apiKey
       THEN chat' = [chat EXCEPT ![c] =
                Returned([@ EXCEPT !.failedAt = "key"], "error", NoKeyApp)]
       ELSE SetChat(c, [prompt |-> <<[role |-> "system", content |-> SystemPrompt]>>
                                     \o AsPrompt(Last8(chat[c].history))
                                     \o <<[role |-> "user", content |-> chat[c].message]>>,
                        call |-> 1, attempt |-> 0, tries |-> 0, waited |-> 0,
                        pc |-> "c_call"])
    /\ UNCHANGED <<sessions, messages, popular, productMetrics, conversations, search, syncVars>>


\* openai.chat.completions.create resolves: the reply of call 1 is a text or a
\* tool request; the reply of call 2 replaces assistantMessage whatever it
\* holds, a tool request in it has content null and is dispatched nowhere
ChatCompletionOk(c, R) ==
    /\ chat[c].pc = "c_call"
    /\ \/ SetChat(c, [assistant |-> "answer", tries |-> chat[c].tries + 1,
                      lastStatus |-> 200, pc |-> "c_assistant"])
       \/ \E tc \in ToolCalls(R, chat[c].route) :
            IF chat[c].call = 1
            THEN SetChat(c, [toolCalled |-> TRUE, toolCall |-> tc,
                             tries |-> chat[c].tries + 1, lastStatus |-> 200,
                             pc |-> "c_tool"])
            ELSE SetChat(c, [assistant |-> "", replyNull |-> TRUE,
                             tries |-> chat[c].tries + 1,
                             lastStatus |-> 200, pc |-> "c_assistant"])
    /\ UNCHANGED <<sessions, messages, popular, productMetrics, conversations, search, syncVars>>

\* openai.chat.completions.create rejects with error.status and error.headers:
\* the catch of createChatCompletionWithRetry waits and goes round again, or
\* rethrows; a rethrow of call 1 goes to the catch of the action, a rethrow of
\* call 2 is replaced by the fallback text in the public route only
ChatCompletionError(c, status, h) ==
    /\ chat[c].pc = "c_call"
    /\ LET msg == IF status = 429 THEN ErrRateLimit ELSE ErrProvider
           seen == [tries |-> chat[c].tries + 1, lastStatus |-> status]
       IN IF RetryAllowed(status, chat[c].attempt)
          THEN SetChat(c, seen @@ [waitMs |-> WaitMs(h, chat[c].attempt), hint |-> h,
                                   pc |-> "c_wait"])
          ELSE IF chat[c].call = 1
          THEN SetChat(c, seen @@ [error |-> msg, failedAt |-> "model", pc |-> "c_catch"])
          ELSE IF chat[c].route = "public"
          THEN SetChat(c, seen @@ [assistant |-> FollowUpFallback, failedAt |-> "followup",
                                   pc |-> "c_assistant"])
          ELSE SetChat(c, seen @@ [error |-> msg, failedAt |-> "followup", pc |-> "c_catch"])
    /\ UNCHANGED <<sessions, messages, popular, productMetrics, conversations, search, syncVars>>

\* await new Promise(r => setTimeout(r, waitMs)); attempt += 1; continue
ChatRetryWait(c) ==
    /\ chat[c].pc = "c_wait"
    /\ SetChat(c, [waited |-> chat[c].waited + chat[c].waitMs,
                   attempt |-> chat[c].attempt + 1, waitMs |-> 0, hint |-> NoHeaders,
                   pc |-> "c_call"])
    /\ UNCHANGED <<sessions, messages, popular, productMetrics, conversations, search, syncVars>>

\* a tool request that is dispatched from wherever it came and leads to
\* another round
ChatToolDispatchAgain(c) ==
    /\ chat[c].pc \in {"c_tool", "c_assistant"}
    /\ chat[c].toolCalled
    /\ chat[c].toolRuns < 3
    /\ SetChat(c, [toolRuns |-> chat[c].toolRuns + 1, call |-> chat[c].call + 1,
                   attempt |-> 0, tries |-> 0, waited |-> 0, pc |-> "c_call"])
    /\ UNCHANGED <<sessions, messages, popular, productMetrics, conversations, search, syncVars>>

\* "Handle function calls": JSON.parse of the arguments, the switch over the
\* tool name, then the follow-up call is set up with the tool result
ChatToolDispatch(c) ==
    /\ chat[c].pc = "c_tool"
    /\ LET tc == chat[c].toolCall
           next == [call |-> 2, attempt |-> 0, tries |-> 0, waited |-> 0, lastStatus |-> 0,
                    pc |-> "c_call"]
       IN IF ~tc.ok
          THEN ChatThrow(c, ErrJson, "args")
          ELSE IF tc.name = "search_store_content"
          THEN \E items \in searchStoreContent(chat[c].shopId, tc.value) :
                  SetChat(c, [functionResults |-> [kind |-> "content", items |-> items],
                              noMatch |-> items = <<>>,
                              toolRuns |-> chat[c].toolRuns + 1] @@ next)
          ELSE IF tc.name = "search_products"
          THEN \E found \in {<<>>, <<1>>} :
                  SetChat(c, [functionResults |-> [kind |-> "products", items |-> found],
                              toolRuns |-> chat[c].toolRuns + 1] @@ next)
          ELSE SetChat(c, next)
    /\ UNCHANGED <<sessions, messages, popular, productMetrics, conversations, search, syncVars>>

\* a response that is sent without storing the assistant message
ChatSaveAssistantLate(c) ==
    /\ chat[c].pc = "c_assistant"
    /\ SetChat(c, [pc |-> "c_stats"])
    /\ UNCHANGED <<sessions, messages, popular, productMetrics, conversations, search, syncVars>>

\* "Save assistant message"
ChatSaveAssistant(c) ==
    /\ chat[c].pc = "c_assistant"
    /\ messages' = Append(messages,
            [session |-> chat[c].chatSession, role |-> "assistant",
             content |-> chat[c].assistant])
    /\ SetChat(c, [savedAssistant |-> TRUE, pc |-> "c_stats"])
    /\ UNCHANGED <<sessions, popular, productMetrics, conversations, search, syncVars>>

\* a question that is recorded as it was typed
NormalizeQuestionRaw(q) == q

\* question.toLowerCase().trim()
NormalizeQuestion(q) == trim(toLowerCase(q))

\* prisma.popularQuestions.upsert on the key (shopId, question)
UpsertQuestion(tbl, key) ==
    IF key \in DOMAIN tbl
    THEN [tbl EXCEPT ![key] = @ + 1]
    ELSE [k \in DOMAIN tbl \cup {key} |-> IF k = key THEN 1 ELSE tbl[k]]

\* prisma.productAnalytics.upsert on the key (shopId, productId) for one
\* exposure ('viewed' or 'recommended')
UpsertProduct(tbl, key, exposure) ==
    LET old == IF key \in DOMAIN tbl THEN tbl[key]
               ELSE [timesViewed |-> 0, timesRecommended |-> 0]
        new == IF exposure = "viewed"
               THEN [old EXCEPT !.timesViewed = @ + 1]
               ELSE [old EXCEPT !.timesRecommended = @ + 1]
    IN [k \in DOMAIN tbl \cup {key} |-> IF k = key THEN new ELSE tbl[k]]

\* "Track analytics if enabled": the popular question is upserted and awaited
\* (trackPopularQuestion of the app route skips a question shorter than 3
\* characters, the public route does not), a failure of the upsert is
\* swallowed; the app route then starts two product upserts per product of
\* the tool result without awaiting them
ChatAnalytics(c, R) ==
    /\ chat[c].pc = "c_stats"
    /\ LET q == NormalizeQuestion(chat[c].message)
           key == <<chat[c].shopId, q>>
           found == IF chat[c].route = "app" /\ chat[c].functionResults.kind = "products"
                    THEN Range(chat[c].functionResults.items) ELSE {}
           started == {<<chat[c].shopId, id, e, "find">> :
                            id \in found, e \in {"viewed", "recommended"}}
           next == [tracked |-> TRUE, detached |-> started, exposed |-> found,
                    pc |-> IF chat[c].route = "app" THEN "c_count" ELSE "c_respond"]
       IN IF ~chat[c].botConfig.enableConversationAnalytics
          THEN /\ SetChat(c, [pc |-> "c_respond"])
               /\ UNCHANGED popular
          ELSE IF chat[c].route = "app" /\ Len(q) < 3
          THEN /\ SetChat(c, next)
               /\ UNCHANGED popular
          ELSE \/ /\ popular' = UpsertQuestion(popular, key)
                  /\ SetChat(c, next)
               \/ /\ R.dbFaults
                  /\ UNCHANGED popular
                  /\ SetChat(c, next @@ [faults |-> chat[c].faults \cup {"question"}])
    /\ UNCHANGED <<sessions, messages, productMetrics, conversations, search, syncVars>>

\* "Get current message count": prisma.chatMessage.count of the app route,
\* awaited outside any try of its own, so a failure of it is thrown to the
\* catch of the action
ChatCountMessages(c, R) ==
    /\ chat[c].pc = "c_count"
    /\ \/ SetChat(c, [messageCount |-> Len(MessagesOf(chat[c].chatSession)),
                      pc |-> "c_conversation"])
       \/ /\ R.dbFaults
          /\ SetChat(c, [error |-> ErrDb, failedAt |-> "count",
                         faults |-> chat[c].faults \cup {"count"}, pc |-> "c_catch"])
    /\ UNCHANGED <<sessions, messages, popular, productMetrics, conversations, search, syncVars>>

\* trackConversationAnalytics: the upsert on sessionId, a failure of it is
\* swallowed
ChatConversationAnalytics(c, R) ==
    /\ chat[c].pc = "c_conversation"
    /\ \/ /\ conversations' =
                [k \in DOMAIN conversations \cup {chat[c].sessionId} |->
                    IF k = chat[c].sessionId THEN chat[c].messageCount
                    ELSE conversations[k]]
          /\ SetChat(c, [pc |-> "c_respond"])
       \/ /\ R.dbFaults
          /\ UNCHANGED conversations
          /\ SetChat(c, [faults |-> chat[c].faults \cup {"conversation"}, pc |-> "c_respond"])
    /\ UNCHANGED <<sessions, messages, popular, productMetrics, search, syncVars>>

\* trackProductAnalytics, started by the turn and not awaited; its upsert
\* first looks for the row of (shopId, productId), at any later time; a
\* failure is swallowed
ProductExposureFind(c, R) ==
    /\ \E e \in chat[c].detached :
        /\ e[4] = "find"
        /\ \/ chat' = [chat EXCEPT ![c].detached =
                    (@ \ {e}) \cup {<<e[1], e[2], e[3],
                        IF <<e[1], e[2]>> \in DOMAIN productMetrics
                        THEN "update" ELSE "create">>}]
           \/ /\ R.dbFaults
              /\ chat' = [chat EXCEPT ![c].detached = @ \ {e},
                                      ![c].faults = @ \cup {"product"}]
    /\ UNCHANGED <<sessions, messages, popular, productMetrics, conversations, search, syncVars>>

\* trackProductAnalytics: the write of the upsert. The update increments the
\* counter of the exposure; the create inserts the row, and is rejected by
\* the unique index on (shopId, productId) when the row has been created
\* since the lookup: the rejection is swallowed with the exposure
ProductExposureWrite(c) ==
    /\ \E e \in chat[c].detached :
        /\ e[4] \in {"create", "update"}
        /\ IF e[4] = "create" /\ <<e[1], e[2]>> \in DOMAIN productMetrics
           THEN UNCHANGED productMetrics
           ELSE productMetrics' = UpsertProduct(productMetrics, <<e[1], e[2]>>, e[3])
        /\ chat' = [chat EXCEPT ![c].detached = @ \ {e}]
    /\ UNCHANGED <<sessions, messages, popular, conversations, search, syncVars>>

\* return json({ message: assistantMessage.content ?? '', ... })
\* a response that carries no text
ChatRespondNothing(c) ==
    /\ chat[c].pc = "c_respond"
    /\ chat' = [chat EXCEPT ![c] = Returned(@, "message", "")]
    /\ UNCHANGED <<sessions, messages, popular, productMetrics, conversations, search, syncVars>>

ChatRespond(c) ==
    /\ chat[c].pc = "c_respond"
    /\ chat' = [chat EXCEPT ![c] = Returned(@, "message", chat[c].assistant)]
    /\ UNCHANGED <<sessions, messages, popular, productMetrics, conversations, search, syncVars>>

\* the catch of the action: the public route answers the fixed text, the app
\* route the configured text of the shop or the fixed text
ChatCatch(c) ==
    /\ chat[c].pc = "c_catch"
    /\ chat' = [chat EXCEPT ![c] =
            Returned(@, "error",
                IF chat[c].route = "app" /\ chat[c].botConfig.errorMessage # ""
                THEN chat[c].botConfig.errorMessage ELSE DefaultError)]
    /\ UNCHANGED <<sessions, messages, popular, productMetrics, conversations, search, syncVars>>

ChatSteps(c, R) ==
    \/ \E route \in R.routes, s \in R.shops, sid \in R.sids,
          msg \in R.messages, cfg \in R.configs :
            ChatReceive(c, route, s, sid, msg, cfg, R.from, R.room)
    \/ ChatFindSession(c)
    \/ ChatCreateSession(c)
    \/ ChatSaveUser(c)
    \/ ChatPrompt(c)
    \/ ChatCompletionOk(c, R)
    \/ \E h \in R.headers : ChatCompletionError(c, 429, h)
    \/ ChatCompletionError(c, 500, NoHeaders)
    \/ ChatRetryWait(c)
    \/ ChatToolDispatch(c)
    \/ ChatSaveAssistant(c)
    \/ ChatAnalytics(c, R)
    \/ ChatRespond(c)
    \/ ChatCatch(c)

\* the analytics steps that the app route alone has
AppAnalyticsSteps(c, R) ==
    \/ ChatCountMessages(c, R)
    \/ ChatConversationAnalytics(c, R)
    \/ ProductExposureFind(c, R)
    \/ ProductExposureWrite(c)

ChatTurn(c, R) == ChatSteps(c, R) \/ AppAnalyticsSteps(c, R)

\* ========================================================== specifications
Init ==
    /\ jobs = <<>>
    /\ content = {}
    /\ proc = [p \in Procs |-> IdleProc]
    /\ now = 1
    /\ sessions = <<>>
    /\ messages = <<>>
    /\ chat = [c \in ChatProcs |-> IdleChat]
    /\ popular = [k \in {} |-> 0]
    /\ productMetrics = [k \in {} |-> 0]
    /\ conversations = [k \in {} |-> 0]
    /\ search = IdleSearch

\* sync requests served one after the other, any shop
Next == StartScrape("r1", SeqRun) \/ AutoScrape("r1", SeqRun)

Spec == Init /\ [][Next]_vars

\* two overlapping sync requests of shop 1, one request per slot
NextRace == \E p \in Procs : StartScrape(p, RaceRun) \/ AutoScrape(p, RaceRun)

SpecRace == Init /\ [][NextRace]_vars

\* two overlapping sync requests of shop 1 whose fetches may differ
NextOverlap == \E p \in Procs : StartScrape(p, OverlapRun) \/ AutoScrape(p, OverlapRun)

SpecOverlap == Init /\ [][NextOverlap]_vars

\* sync requests served one after the other on an upstream with duplicates
NextReplace == StartScrape("r1", ReplaceRun) \/ AutoScrape("r1", ReplaceRun)

SpecReplace == Init /\ [][NextReplace]_vars

\* background syncs and calls of shouldAutoScrape while the clock advances
NextClock ==
    \/ AutoScrape("r1", ClockRun)
    \/ \E s \in ClockRun.shops : shouldAutoScrape("r1", s, ClockRun.from)
    \/ Tick

SpecClock == Init /\ [][NextClock]_vars

\* background syncs and runs of the cron action while the clock advances
NextCron ==
    \/ AutoScrape("r1", ClockRun)
    \/ \E s \in ClockRun.shops, authorized \in BOOLEAN :
            cronAction("r1", s, authorized, ClockRun.from)
    \/ CronTick

SpecCron == Init /\ [][NextCron]_vars

\* one node of the upstream is turned into its row
NextNormalize ==
    \/ NormalizeProduct("r1", {"idle"})
    \/ NormalizeCollection("r1", {"idle"})

SpecNormalize == Init /\ [][NextNormalize]_vars

\* two overlapping chat turns, one request per slot
NextChat == \E c \in ChatProcs : ChatSteps(c, ChatRaceRun)

SpecChat == Init /\ [][NextChat]_vars

\* one chat turn, on every configuration and every rate-limit header
NextTurn == ChatTurn("c1", TurnRun)

SpecTurn == Init /\ [][NextTurn]_vars

\* the turns of one shop, one after the other
NextAsk == ChatTurn("c1", AskRun)

SpecAsk == Init /\ [][NextAsk]_vars

\* the text of the k-th message of a stored conversation
RECURSIVE TextOf(_)
TextOf(k) == IF k = 0 THEN "" ELSE TextOf(k - 1) \o "m"

\* a session of shop 1 that holds n messages, user and assistant in turn
StoredConversation(n) ==
    [k \in 1..n |-> [session |-> 1, role |-> IF k % 2 = 1 THEN "user" ELSE "assistant",
                     content |-> TextOf(k)]]

\* one turn on a session with a stored conversation or on a new session
InitHistory ==
    /\ jobs = <<>>
    /\ content = {}
    /\ proc = [p \in Procs |-> IdleProc]
    /\ now = 1
    /\ \E n \in 0..MaxHistory :
        /\ sessions = IF n = 0 THEN <<>> ELSE <<[sessionId |-> 1, shopId |-> 1]>>
        /\ messages = StoredConversation(n)
    /\ chat = [c \in ChatProcs |-> IdleChat]
    /\ popular = [k \in {} |-> 0]
    /\ productMetrics = [k \in {} |-> 0]
    /\ conversations = [k \in {} |-> 0]
    /\ search = IdleSearch

NextHistory == ChatTurn("c1", HistoryRun)

SpecHistory == InitHistory /\ [][NextHistory]_vars

\* one call of a search function on the rows shop_content may hold
InitSearch ==
    /\ jobs = <<>>
    /\ content \in SUBSET SearchRows
    /\ proc = [p \in Procs |-> IdleProc]
    /\ now = 1
    /\ sessions = <<>>
    /\ messages = <<>>
    /\ chat = [c \in ChatProcs |-> IdleChat]
    /\ popular = [k \in {} |-> 0]
    /\ productMetrics = [k \in {} |-> 0]
    /\ conversations = [k \in {} |-> 0]
    /\ search = IdleSearch

NextSearch ==
    \/ \E s \in Shops, query \in SearchQueries, contentTypes \in {<<>>, <<"article">>},
          limit \in {1, 5} : SearchContent(s, query, contentTypes, limit)
    \/ \E s \in Shops, n \in 0..MaxCandidates, query \in SearchQueries :
          SearchRelevance(s, n, query)

SpecSearch == InitSearch /\ [][NextSearch]_vars

\* queries of the relevance search: words the table corrects to, words it
\* corrects, and words it leaves alone
CorrectionQueries ==
    {"chocolate", "diet", "Diet Chocolate", "deit", "chocolat", "light bar", "bar", "soup"}

\* one call of intelligentProductSearch with such a query
NextCorrect ==
    \E s \in Shops, n \in 0..MaxCandidates, query \in CorrectionQueries :
        SearchRelevance(s, n, query)

SpecCorrect == InitSearch /\ [][NextCorrect]_vars

\* ================================================================== claims
HasRunning(s) == \E j \in JobIds : jobs[j].shopId = s /\ jobs[j].status = "running"

Terminal(st) == st \in {"completed", "failed"}

\* the request of slot p has ended, and so has the pipeline it started
Ended(p) == proc[p].pc = "done" /\ proc[p].job # 0

\* what the run of slot p was served by the upstream
Fetched(p) == IF proc[p].kind = "auto" THEN proc[p].acc ELSE proc[p].allContent

\* the categories the run of slot p fetched and replaces
Synced(p) ==
    IF proc[p].kind = "auto"
    THEN (IF proc[p].hasEdges THEN {"product"} ELSE {})
    ELSE {"product", "article", "collection"} \ proc[p].skipped

\* C1: for every tenant, in every reachable state, at most one ScrapingJob of
\* the tenant has status 'running', also when start requests interleave
\* their check for a running job and their insert.
C1_SingleFlight ==
    \A s \in Shops : Cardinality(RunningJobs(s)) <= 1

\* C2: every accepted job leaves 'running': once the pipeline of a job has
\* ended (by completing or by throwing), the job row is not 'running'.
C2_NoJobLeftRunning ==
    \A p \in Procs : Ended(p) => jobs[proc[p].job].status # "running"

\* C3: once a job's status is 'completed' or 'failed', no later step changes
\* its status, progress, item counts, error text or completed-at.
C3_TerminalImmutable ==
    [][\A j \in JobIds : Terminal(jobs[j].status) => jobs'[j] = jobs[j]]_vars

\* C4: a start request (start_scrape or triggerAutoScrape) made while the
\* tenant has a 'running' job is refused: start_scrape answers 'already
\* running', triggerAutoScrape returns false, the request ends there without
\* a job of its own, and the step changes neither scraping_jobs nor
\* shop_content.
C4_RefusedWhenRunning ==
    [][\A p \in Procs :
         (/\ proc[p].pc \in {"idle", "done"}
          /\ proc'[p].pc # proc[p].pc \/ proc'[p].kind # proc[p].kind
          /\ HasRunning(proc'[p].shopId))
         => /\ proc'[p].pc = "done"
            /\ proc'[p].job = 0
            /\ proc'[p].resp = (IF proc'[p].kind = "manual"
                                THEN "already_running" ELSE "false")
            /\ jobs' = jobs
            /\ content' = content]_vars

\* C4 witness: a request was refused while another job of the shop runs
C4_Witness ==
    \E p \in Procs :
        /\ proc[p].pc = "done"
        /\ proc[p].resp \in {"already_running", "false"}
        /\ proc[p].error = ""
        /\ HasRunning(proc[p].shopId)

\* C5: startJob returns to its caller as soon as the 'running' row exists:
\* while the pipeline of a created job has not ended, the triggering request
\* has already been answered.
C5_ReturnsWhileRunning ==
    \A p \in Procs :
        (proc[p].job # 0 /\ proc[p].pc # "done") => proc[p].resp # "none"

\* C6: when a job completes, the tenant's stored rows of each synced category
\* are exactly the rows fetched from upstream in that run.
C6_ExactReplace ==
    [][\A p \in Procs :
         (/\ proc[p].job # 0
          /\ jobs[proc[p].job].status # "completed"
          /\ jobs'[proc[p].job].status = "completed")
         => \A ct \in Synced(p) :
                RowsOf(content', proc[p].shopId, ct)
                    = {r \in Range(Fetched(p)) : r.contentType = ct}]_vars

\* C7: in a quiescent state (no job of the tenant 'running'), a category that
\* held rows before the last job and whose upstream is non-empty has rows,
\* also after a job that failed between its delete and the end of its inserts.
C7_NoEmptyCategory ==
    \A p \in Procs : \A ct \in ContentTypes :
        (/\ Ended(p)
         /\ ~HasRunning(proc[p].shopId)
         /\ ct \in proc[p].removed
         /\ \E r \in Range(proc[p].allContent) : r.contentType = ct)
        => RowsOf(content, proc[p].shopId, ct) # {}

\* C8: for every category, a page request that fails with the upstream's
\* 'permission denied' signal (and nothing else failing) skips the category
\* and the job ends 'completed'.
C8_DeniedCategorySkipped ==
    \A p \in Procs :
        (/\ Ended(p)
         /\ proc[p].kind = "manual"
         /\ \/ proc[p].error \in {ErrDenied("products"), ErrDenied("collections")}
            \/ "article" \in proc[p].skipped /\ proc[p].error = "")
        => jobs[proc[p].job].status = "completed"

\* C9: an upstream failure other than 'permission denied' on a page request
\* (non-OK response, response carrying errors, response without data) makes
\* the job end 'failed'; such a job never ends 'completed'.
C9_UpstreamFailureFails ==
    \A p \in Procs :
        (/\ Ended(p)
         /\ \/ proc[p].badResponse
            \/ proc[p].error \in {ErrNotOk, ErrGraphQL, ErrCollNotOk, ErrCollGraphQL})
        => jobs[proc[p].job].status # "completed"

\* C10: when two chat requests race on the same new session id, exactly one
\* ChatSession row results and neither request fails: the request that loses
\* the unique-create ends its turn with an assistant response.
C10_RaceLoserAnswers ==
    /\ \A k1, k2 \in 1..Len(sessions) :
            sessions[k1].sessionId = sessions[k2].sessionId => k1 = k2
    /\ \A c \in ChatProcs :
            (chat[c].pc = "done" /\ chat[c].lostCreate) => chat[c].resp = "message"

\* C11: a chat turn of tenant T loads the history of, and stores its messages
\* in, a session of T only: a session id first used under another tenant
\* brings neither that tenant's messages into the prompt nor this turn's
\* messages into that tenant's session.
C11_SessionOfTenant ==
    \A c \in ChatProcs :
        (chat[c].chatSession # 0 /\ (chat[c].savedUser \/ chat[c].prompt # <<>>))
        => sessions[chat[c].chatSession].shopId = chat[c].shopId

\* the error texts the code holds for a failed turn, and the texts of the
\* internal errors
ErrorStrings(cfg) == {DefaultError, ServiceUnavailable} \cup ({cfg.errorMessage} \ {""})
InternalTexts == {ErrProvider, ErrRateLimit, ErrJson, ErrUnique}

\* C12: the body of the response to a turn that failed (model unreachable,
\* retries exhausted, malformed tool arguments, no credential) is the
\* tenant's configured error text or the default error text, never the
\* message of the internal error.
C12_ErrorBodyIsConfiguredOrDefault ==
    \A c \in ChatProcs :
        (chat[c].pc = "done" /\ chat[c].resp = "error")
        => /\ chat[c].body \in ErrorStrings(chat[c].botConfig)
           /\ chat[c].body \notin InternalTexts

\* C13: after a turn that failed at the model call, at the tool arguments or
\* at the follow-up call, the user's message of the turn is stored, and an
\* assistant message is stored only as the fallback acknowledgement of a
\* failed follow-up call.
C13_FailedTurnKeepsUserMessage ==
    \A c \in ChatProcs :
        (chat[c].pc = "done" /\ chat[c].failedAt \in {"model", "args", "followup"})
        => /\ chat[c].savedUser
           /\ \E i \in 1..Len(messages) :
                messages[i].role = "user" /\ messages[i].content = chat[c].message
           /\ \A i \in 1..Len(messages) :
                messages[i].role = "assistant"
                => /\ messages[i].content = FollowUpFallback
                   /\ chat[c].failedAt = "followup"
                   /\ chat[c].savedAssistant

\* C13 witness: a turn failed at the tool arguments and its user message is
\* stored without an assistant message
C13_Witness ==
    \E c \in ChatProcs :
        /\ chat[c].pc = "done"
        /\ chat[c].failedAt = "args"
        /\ Len(messages) = 1
        /\ messages[1].role = "user"

\* C14: a failed follow-up call does not fail the turn, in either route: the
\* assistant text is the generic acknowledgement, it is stored and returned.
C14_FollowUpFallbackBothRoutes ==
    \A c \in ChatProcs :
        (chat[c].pc = "done" /\ chat[c].failedAt = "followup")
        => /\ chat[c].resp = "message"
           /\ chat[c].body = FollowUpFallback
           /\ chat[c].savedAssistant

\* C15: a turn invokes the model at most twice, the second time only after
\* the first reply asked for a tool, and runs at most one tool: a tool
\* request in the follow-up reply is not dispatched.
C15_AtMostTwoCallsOneTool ==
    \A c \in ChatProcs :
        /\ chat[c].call <= 2
        /\ chat[c].toolRuns <= 1
        /\ chat[c].call = 2 => chat[c].toolCalled
        /\ chat[c].toolRuns = 1 => chat[c].toolCalled

\* C15 witness: the follow-up reply held a tool request (its content is
\* empty) and the turn goes on to store it, one tool having run
C15_Witness ==
    \E c \in ChatProcs :
        /\ chat[c].pc = "c_assistant"
        /\ chat[c].call = 2
        /\ chat[c].lastStatus = 200
        /\ chat[c].assistant = ""
        /\ chat[c].toolRuns = 1

C17_RetryOnlyOn429 ==
    [][\A c \in ChatProcs :
        /\ chat'[c].tries <= maxRetries + 1
        /\ chat'[c].attempt <= maxRetries
        /\ (chat[c].pc = "c_call" /\ chat'[c].pc = "c_wait")
            => chat'[c].lastStatus = 429 /\ chat[c].attempt < maxRetries
        /\ (chat[c].pc = "c_call" /\ chat'[c].tries = chat[c].tries + 1
            /\ chat'[c].lastStatus = 200)
            => chat'[c].pc \in {"c_assistant", "c_tool"}
        /\ (chat[c].pc = "c_call" /\ chat'[c].tries = chat[c].tries + 1
            /\ chat'[c].lastStatus \notin {200, 429})
            => /\ chat'[c].pc \in {"c_catch", "c_assistant"}
               /\ chat'[c].failedAt \in {"model", "followup"}
               /\ chat'[c].waited = chat[c].waited]_vars

\* C17 witness: the third request of a call succeeded after two waits
C17_Witness ==
    \E c \in ChatProcs :
        /\ chat[c].tries = maxRetries + 1
        /\ chat[c].attempt = maxRetries
        /\ chat[c].lastStatus = 200

\* C18: a model call that is rate-limited twice and succeeds at the third
\* request returns that result after a total wait strictly below hard cap
\* times retry bound (5000 ms x 2), whatever the provider's hints.
C18_TotalWaitBelowCap ==
    \A c \in ChatProcs :
        (chat[c].tries = maxRetries + 1 /\ chat[c].lastStatus = 200)
        => /\ chat[c].assistant = "answer" \/ chat[c].toolCalled
           /\ chat[c].waited < capMs * maxRetries

\* C18 as amended: the total wait is at most hard cap times retry bound
C18_TotalWaitAtMostCap ==
    \A c \in ChatProcs :
        (chat[c].tries = maxRetries + 1 /\ chat[c].lastStatus = 200)
        => /\ chat[c].assistant = "answer" \/ chat[c].toolCalled
           /\ chat[c].waited <= capMs * maxRetries

\* C18 witness: two hints above the cap, the third request succeeded
C18_Witness ==
    \E c \in ChatProcs :
        /\ chat[c].tries = maxRetries + 1
        /\ chat[c].lastStatus = 200
        /\ chat[c].waited = capMs * maxRetries

\* C19: every record a search returns for tenant T is a record of T, is
\* active and, under a non-empty category allow-list, is of a listed
\* category, in the substring mode and in the relevance-scored mode.
C19_SearchReturnsOwnActiveRows ==
    \A k \in 1..Len(search.items) :
        /\ search.items[k].shopId = search.shopId
        /\ search.items[k].isActive
        /\ search.contentTypes # <<>>
            => search.items[k].contentType \in Range(search.contentTypes)

\* C20: the relevance-scored search returns exactly the candidates of score
\* above 0, by descending score, and of two returned records of equal score
\* the one synced more recently comes first.
C20_ScoredOrderRecencyTies ==
    search.mode = "relevance" =>
        LET items == search.items
            sc(r) == Score(r, search.query)
        IN /\ Range(items) = {r \in Range(search.products) : sc(r) > 0}
           /\ Len(items) = Cardinality(Range(items))
           /\ \A i, j \in 1..Len(items) :
                i < j => /\ sc(items[i]) >= sc(items[j])
                         /\ sc(items[i]) = sc(items[j])
                            => items[i].lastScraped >= items[j].lastScraped

\* the rows a replace stores for the rows it was handed: of the rows of one
\* key, the first
FirstOfKey(seq) ==
    {seq[k] : k \in {i \in 1..Len(seq) : \A j \in 1..(i - 1) : KeyOf(seq[j]) # KeyOf(seq[i])}}

\* the rows handed to the replace of slot p hold two rows of one key
HasDuplicateKey(p) ==
    \E i, j \in 1..Len(proc[p].allContent) :
        i < j /\ KeyOf(proc[p].allContent[i]) = KeyOf(proc[p].allContent[j])

\* C22: shop_content never holds two rows of one (tenant, category, external
\* id), and a replace that is handed two records of one key does not fail
\* over them: the job completes and one row of that key is stored.
C22_UniqueKeyDuplicatesSkipped ==
    /\ \A r1, r2 \in content : KeyOf(r1) = KeyOf(r2) => r1 = r2
    /\ \A p \in Procs :
        (Ended(p) /\ proc[p].error = "" /\ HasDuplicateKey(p))
        => /\ jobs[proc[p].job].status = "completed"
           /\ \A r \in Range(proc[p].allContent) :
                Cardinality({x \in content : KeyOf(x) = KeyOf(r)}) = 1

\* C22 witness: a completed replace was handed one product under two titles
C22_Witness ==
    \E p \in Procs :
        /\ Ended(p)
        /\ jobs[proc[p].job].status = "completed"
        /\ \E i, j \in 1..Len(proc[p].allContent) :
             /\ i < j
             /\ KeyOf(proc[p].allContent[i]) = KeyOf(proc[p].allContent[j])
             /\ proc[p].allContent[i] # proc[p].allContent[j]
             /\ proc[p].allContent[i] \in content

\* C23: a completed sync leaves, in every category it replaces, the rows that
\* follow from the upstream data of that run alone (of each key the first
\* record), whatever was stored before it: a second run on identical upstream
\* data leaves the set of rows the first run left.
C23_ReplaceIdempotent ==
    [][\A p \in Procs :
         (/\ proc[p].job # 0
          /\ jobs[proc[p].job].status # "completed"
          /\ jobs'[proc[p].job].status = "completed")
         => \A ct \in Synced(p) :
                RowsOf(content', proc[p].shopId, ct)
                    = {r \in FirstOfKey(proc[p].allContent) : r.contentType = ct}]_vars

\* C23 witness: a second sync of a shop has completed over the rows of a first
C23_Witness ==
    \E p \in Procs :
        /\ Ended(p)
        /\ proc[p].job = 2
        /\ jobs[1].shopId = jobs[2].shopId
        /\ jobs[1].status = "completed"
        /\ jobs[2].status = "completed"
        /\ proc[p].removed # {}
        /\ RowsOf(content, proc[p].shopId, "product") # {}

\* C24: while a job is 'running', each update leaves its progress at or above
\* the value before and within 0..100, for every number of records and
\* batches, in the full scrape and in the background scrape.
C24_ProgressMonotone ==
    [][\A j \in JobIds :
         jobs[j].status = "running"
         => /\ jobs'[j].progress >= jobs[j].progress
            /\ jobs'[j].progress \in 0..100]_vars

\* C24 witness: a background scrape is past its second batch
C24_Witness ==
    \E j \in JobIds :
        /\ jobs[j].jobType = "auto_24h"
        /\ jobs[j].status = "running"
        /\ jobs[j].itemsProcessed = 2
        /\ jobs[j].progress = 80

\* C30: a sync job changes rows only of its own tenant and only in the
\* categories it fetched: the rows of a category that was skipped (permission
\* denied) or that the job does not handle, and the rows of other tenants,
\* stay as they are.
C30_OnlySyncedCategoriesChange ==
    [][\A r \in (content \ content') \cup (content' \ content) :
         \E p \in Procs :
            /\ proc[p].job # 0
            /\ r.shopId = proc[p].shopId
            /\ r.contentType \in Synced(p)]_vars

Stored(role, text) ==
    \E i \in 1..Len(messages) : messages[i].role = role /\ messages[i].content = text

C26_AnalyticsFailureIgnored ==
    \A c \in ChatProcs :
        (chat[c].pc = "done" /\ chat[c].savedAssistant /\ chat[c].faults # {})
        => /\ chat[c].resp = "message"
           /\ Stored("assistant", chat[c].body)

\* C27: every write to popular_questions creates at frequency 1, or
\* increments by one, the row of the tenant and of the lowercased and trimmed
\* text of the question, and no other row: questions of one tenant that
\* differ in letter case or surrounding blanks only share one row, whose
\* frequency counts them all.
C27_OneRowPerNormalizedQuestion ==
    [][\A key \in DOMAIN popular' :
        LET before == IF key \in DOMAIN popular THEN popular[key] ELSE 0
        IN /\ key[2] = trim(toLowerCase(key[2]))
           /\ popular'[key] # before
                => /\ popular'[key] = before + 1
                   /\ \E c \in ChatProcs :
                        /\ chat[c].pc = "c_stats"
                        /\ key = <<chat[c].shopId, trim(toLowerCase(chat[c].message))>>]_vars

\* C27 witness: the questions " Hello " and "hello" of shop 1 have been
\* recorded, and the one row "hello" of the shop has frequency 2
C27_Witness ==
    /\ Stored("user", " Hello ")
    /\ Stored("user", "hello")
    /\ DOMAIN popular = {<<1, "hello">>}
    /\ popular[<<1, "hello">>] = 2

\* C28: no popular_questions row is created or updated for a question whose
\* lowercased and trimmed text is shorter than 3 characters, on the app
\* route and on the public route.
C28_ShortQuestionsNotRecorded ==
    \A key \in DOMAIN popular : Len(key[2]) >= 3

C31_FailureChangesOwnJobOnly ==
    [][\A p \in Procs :
        (proc[p].pc \in {"m_fail", "b_fail"} /\ proc'[p].pc = "done")
        => \A j \in JobIds : j # proc[p].job => jobs'[j] = jobs[j]]_vars

\* the rows the run of slot p writes for a category: of each key among the
\* rows it hands to createMany, the first
WrittenBy(p, ct) == {r \in FirstOfKey(proc[p].allContent) : r.contentType = ct}

\* C32: when two sync jobs of one shop overlapped and both have completed,
\* the rows of each category that both runs replaced are the rows written by
\* one of the two runs in full: no row of a run is lost to the delete of the
\* other, and the rows are never a mixture of the two runs.
C32_OverlapLeavesOneRun ==
    \A p, q \in Procs :
        (/\ p # q
         /\ Ended(p) /\ Ended(q)
         /\ proc[p].shopId = proc[q].shopId
         /\ jobs[proc[p].job].status = "completed"
         /\ jobs[proc[q].job].status = "completed")
        => \A ct \in Synced(p) \cap Synced(q) :
                \/ RowsOf(content, proc[p].shopId, ct) = WrittenBy(p, ct)
                \/ RowsOf(content, proc[p].shopId, ct) = WrittenBy(q, ct)

\* C33: every scraping_jobs row with status 'completed' has progress 100, a
\* completed-at value, itemsProcessed equal to itemsFound, and itemsProcessed
\* equal to the number of rows the job inserted, also when the rows handed
\* to the insert held two of one key and the insert skipped one.
C33_CompletedJobCounts ==
    \A p \in Procs :
        (Ended(p) /\ jobs[proc[p].job].status = "completed")
        => LET job == jobs[proc[p].job]
           IN /\ job.progress = 100
              /\ job.completedAt # 0
              /\ job.itemsProcessed = job.itemsFound
              /\ job.itemsProcessed = proc[p].inserted

\* C34: the prompt sent to the model is the instruction block, then the
\* messages of the session stored before the turn, in their stored order and
\* at most 8 of them (the last 8 when the session holds more), then the new
\* user message, which the prompt holds once.
C34_PromptWindow ==
    \A c \in ChatProcs :
        chat[c].call >= 1
        => LET prompt == chat[c].prompt
               n == Len(prompt)
               \* the messages of the session stored before the turn: the
               \* session's rows without the rows this turn has stored
               rows == MessagesOf(chat[c].chatSession)
               before == SubSeq(rows, 1, Len(rows) - (IF chat[c].savedUser THEN 1 ELSE 0)
                                                   - (IF chat[c].savedAssistant THEN 1 ELSE 0))
               kept == Min(Len(before), 8)
           IN /\ n = kept + 2
              /\ prompt[1].role = "system"
              /\ \A k \in 1..kept :
                    /\ prompt[1 + k].role = before[Len(before) - kept + k].role
                    /\ prompt[1 + k].content = before[Len(before) - kept + k].content
              /\ prompt[n] = [role |-> "user", content |-> chat[c].message]
              /\ Cardinality({k \in 1..n : prompt[k].content = chat[c].message}) = 1

\* C34 witness: a turn on a session of 9 stored messages has sent a prompt of
\* the instruction block, the messages 2 to 9 and the new message
C34_Witness ==
    \E c \in ChatProcs :
        /\ chat[c].call >= 1
        /\ Len(chat[c].history) = 9
        /\ Len(chat[c].prompt) = 10
        /\ chat[c].prompt[2].content = TextOf(2)
        /\ chat[c].prompt[9].content = TextOf(9)

\* C35: before each retry the wait is the hint of the provider when one is
\* present (retry-after-ms, else retry-after in seconds times 1000),
\* otherwise 1000 ms times the number of the retry, and at most 5000 ms.
C35_WaitIsHintOrLinear ==
    \A c \in ChatProcs :
        chat[c].pc = "c_wait"
        => LET h == chat[c].hint
               asked == IF h.ms # <<>> THEN h.ms[1]
                        ELSE IF h.s # <<>> THEN h.s[1] * 1000
                        ELSE 1000 * (chat[c].attempt + 1)
           IN chat[c].waitMs = Min(asked, 5000)

\* C35 as amended: a hint counts when it is a number other than 0
C35_WaitIsNonZeroHintOrLinear ==
    \A c \in ChatProcs :
        chat[c].pc = "c_wait"
        => LET h == chat[c].hint
               asked == IF h.ms # <<>> /\ h.ms # <<0>> THEN h.ms[1]
                        ELSE IF h.s # <<>> /\ h.s # <<0>> THEN h.s[1] * 1000
                        ELSE 1000 * (chat[c].attempt + 1)
           IN /\ chat[c].waitMs = Min(asked, 5000)
              /\ chat[c].waitMs <= 5000

\* C35 witness: the second retry after a hint of retry-after-ms 0 and no
\* retry-after waits 2000 ms
C35_Witness ==
    \E c \in ChatProcs :
        /\ chat[c].pc = "c_wait"
        /\ chat[c].hint = [ms |-> <<0>>, s |-> <<>>]
        /\ chat[c].attempt = 1
        /\ chat[c].waitMs = 2000

\* the rows of a sequence of pages, in order
RECURSIVE RowsOfPages(_)
RowsOfPages(pages) ==
    IF pages = <<>> THEN <<>> ELSE pages[1].rows \o RowsOfPages(Tail(pages))

\* the page loop of slot p has ended and the run has not gone on yet
LoopEnded(p) ==
    /\ proc[p].pc \in {"m_prog50", "m_prog80", "m_delete"}
    /\ proc[p].served # <<>>

\* C36: the fetch of a category ends exactly when the upstream signals that
\* there are no more pages (hasNextPage false, or a page without edges): it
\* has then requested each page once, in cursor order, the signal came with
\* the last request and with none before it, and the rows it returns are the
\* rows of every page, each once, in order.
C36_FetchEndsAtSignal ==
    \A p \in Procs :
        LoopEnded(p)
        => LET n == Len(proc[p].served)
               rows == RowsOfPages(proc[p].served)
               all == proc[p].allContent
           IN /\ proc[p].requests = [k \in 1..n |-> k - 1]
              /\ proc[p].served[n].signal \in {"last", "none"}
              /\ \A k \in 1..(n - 1) : proc[p].served[k].signal = "next"
              /\ Len(all) >= Len(rows)
              /\ SubSeq(all, Len(all) - Len(rows) + 1, Len(all)) = rows

\* C36 witness: a product fetch ended at its second page, with a row from
\* each page
C36_Witness ==
    \E p \in Procs :
        /\ proc[p].pc = "m_prog50"
        /\ Len(proc[p].served) = 2
        /\ proc[p].served[2].signal = "last"
        /\ Len(proc[p].allContent) = 2

\* C37: the cron action skips a tenant exactly when the most recent
\* 'completed' job of the tenant completed less than 23 hours before the
\* call, the time being counted from the completion of the job.
C37_CronSkipsRecentCompletion ==
    [][\A p \in Procs :
         (/\ proc'[p].kind = "cron" /\ proc'[p] # proc[p]
          /\ proc'[p].resp \in {"skipped", "processed"})
         => LET s == proc'[p].shopId
                done == {j \in JobIds : jobs[j].shopId = s /\ jobs[j].status = "completed"}
                window == 23 * 60 * 60 * 1000
            IN proc'[p].resp = "skipped"
                    <=> \E j \in done : now - jobs[j].completedAt < window]_vars

\* the words the corrections table corrects to
CorrectionTargets == {corrections[k][2] : k \in DOMAIN corrections}

\* C39: the misspelling correction of the relevance search leaves every
\* word the table corrects to unchanged, and correcting a corrected query
\* gives the same query again.
C39_CorrectionFixedPoints ==
    search.mode = "relevance"
    => /\ trim(toLowerCase(search.query)) \in CorrectionTargets
            => search.correctedQuery = trim(toLowerCase(search.query))
       /\ CorrectedQuery(search.correctedQuery) = search.correctedQuery

\* the words of a lowercased text, between spaces and commas
WordsOf(s) == Range(split(ReplaceAll(s, ",", " ")))

\* C38: building a row does not throw when vendor, description or tags are
\* absent, and an absent field adds nothing: with the description absent
\* the excerpt is empty, and the text of an absent value ('undefined',
\* 'null') is no word of the search blob nor of the keyword list.
C38_AbsentFieldsAddNothing ==
    \A p \in Procs :
        proc[p].kind \in {"product", "collection"}
        => /\ proc[p].error = ""
           /\ Absent(proc[p].node.description) => proc[p].row.excerpt = ""
           /\ WordsOf(proc[p].row.searchableContent) \cap {"undefined", "null"} = {}
           /\ WordsOf(proc[p].row.keywords) \cap {"undefined", "null"} = {}

====
